---------------------------- MODULE Spec2Model ----------------------------
(***************************************************************************)
(* Model of the hub link protocol code of splayground_app:                 *)
(*   - the hub's device scan (BLE_PROTOCOL_V1.md, "Scan Implementation")   *)
(*   - the web app's BLE frame reassembly (BLE_PROTOCOL_V1.md, on_ble_data)*)
(*   - SerialAdapter.startReadLoop / read and the WebSerial operations     *)
(*   - SerialUploader's raw REPL entry and the upload flow that uses it    *)
(* Each part has its own specification; the variables of the other parts   *)
(* stay at their initial values.                                           *)
(***************************************************************************)
EXTENDS Integers, Sequences, FiniteSets, TLC

VARIABLES
    \* ---- hub device scan ------------------------------------------------
    hub_time,              \* time.time() on the hub, in seconds
    scan_in_progress,
    scan_start_time,
    scan_rssi_threshold,
    discovered_devices,
    ble_paused,
    scan_ping_counter,
    last_ping_time,
    ble_advertising,       \* what the last ble.advertise()/stop_advertising() left
    ble_sent,              \* device lists handed to send_ble_framed, in order
    ping_log,              \* hub_time of every PING broadcast of the current scan
    scan_log,              \* "finish"/"watchdog", in the order they first ran in the current scan
    watchdog_elapsed,      \* elapsed when the watchdog fired in the current scan (0: it did not)
    last_check_time,       \* hub_time of the last check_scan_progress (or of the scan's start)
    tick_gap,              \* TRUE once the clock passed more than scan_redundancy_delay without a check
    hub_call,              \* the last handler that ran and how it left
    hub_raised,            \* the exception the last handler raised ("none": it returned)
    seen_rssi,             \* per mac: the rssi of every response handled in the current scan
    \* ---- web app frame reassembly (on_ble_data) -------------------------
    ble_time,              \* current_time of the web app, in seconds
    frame_state,           \* _frame_state
    expected_payload_length, \* _expected_payload_length
    payload_buffer,        \* _payload_buffer
    frame_buffer,          \* _frame_buffer
    last_fragment_time,    \* _last_fragment_time
    delivered,             \* payloads handed to process_complete_message, in order
    frame_raised,          \* the exception the last on_ble_data call raised ("none": it returned)
    wire,                  \* bytes of the frame in transmission the hub has not sent yet
    sent_payloads,         \* payloads of the frames the hub started to send, in order
    abandoned,             \* number of frames the hub stopped sending half way
    fed_since_clear,       \* every byte notified since the buffers were last emptied
                           \* (by a timeout reset or by a delivery)
    delivered_from,        \* when the last step delivered a payload: the bytes notified
                           \* since the buffers were emptied before it (else empty)
    discarded,             \* what the last timeout reset dropped from _payload_buffer
    resets,                \* number of timeout resets that dropped a started frame
    \* ---- SerialUploader raw REPL entry and the upload flow --------------
    modal_state,           \* HubSetupModal.state
    up_pc,                 \* how far startUpload has come
    reader_held,           \* SerialUploader.reader is set (acquireStreams .. releaseStreams)
    wait_buffer,           \* buffer of enterRawRepl's waitForPrompt when it returned
    wait_success,          \* what that waitForPrompt returned ("none": not called)
    enter_returned,        \* how enterRawRepl left: "none", "true", "false", "raised"
    upload_results,        \* results of uploadMultipleFiles: {path, status} in order
    upload_attempted,      \* paths uploadFile was called for, in order
    upload_responses,      \* what the device answered to each of those uploads
    py_buffer,             \* result.buffer of enter_raw_repl_mode's readUntil
    py_found,              \* result.found of that readUntil ("none": not called)
    py_returned,           \* how enter_raw_repl_mode left: "none", "returned", "raised"
    \* ---- SerialAdapter read loop and the WebSerial operations -----------
    connected,             \* adapter.connect() succeeded
    readerLock,            \* who holds the lock of port.readable: "free", "loop", "op"
    loopPc,                \* the read loop that took the lock: "none", "reading", "cleanup"
    running,               \* `running` of that loop's closure
    read_loop_stop,        \* WebSerial.read_loop_stop: "None", or the stop function of a
                           \* loop that took the lock ("live") or that failed to ("dead")
    connection_lost,       \* on_error ran (on_connection_lost_callback)
    device_gone,           \* the device has vanished (cable pulled, hub reset)
    port_closed,           \* WebSerial.disconnect was called
    disconnected_events,   \* times on_connection_lost_callback was called
    on_error_causes,       \* why the read loop called onError, over all calls
    in_flight_at_vanish,   \* per operation: it was in progress when the device vanished
    messages,              \* chunks the loop handed to on_data
    opPc,                  \* per operation: idle, sleeping, interrupted, reading, done, failed
    started_busy,          \* per operation: another operation was in progress when it began
    wrote,                 \* per operation: it has written to the transport in this run
    first_read_lock,       \* per operation: readerLock at its first adapter.read ("none": not yet)
    op_error,              \* per operation: the error of this run ("none")
    \* ---- hub main loop: BLE connection monitor --------------------------
    ble_is_connected,      \* hub.ble.is_connected
    last_connection_check, \* last_connection_check of the main loop
    \* ---- uploadFile: the content on its way into the remote literal
    esc_pc,                \* idle, escaped (code built), written (device ran it)
    esc_by,                \* who built the code: uploadFile or upload_file
    esc_content,           \* content handed to uploadFile / upload_file
    esc_text,              \* escapedContent as placed between the triple quotes
    esc_written,          \* what f.write received on the device, or a syntax error
    \* ---- WebSerial.get_board_info and the board it talks to
    board_mode,            \* interpreter mode of the board: normal, raw, running
    board_version,         \* version the firmware prints in its banner
    board_pending,         \* lines the board has printed and the host has not read
    info_pc,               \* get_board_info: idle or reading
    info_reads,            \* get_board_info: reads done in this call
    info,                  \* get_board_info: lines collected in this call
    info_results,         \* what the calls since the last reset returned or raised
    \* ---- protocol waits: waitForPrompt, readUntil, execute_repl_command
    wt_pc,                 \* idle, waiting, ended
    wt_kind,               \* which wait is running
    wt_elapsed,            \* Date.now() - startTime, in ms
    wt_reads,              \* reads the wait has done
    wt_result,            \* how the wait ended
    \* ---- SerialAdapter: port, reader, locks, and the last call
    ad_port,               \* this.port: null, selected (open failed), open
    ad_reader,             \* this.reader is set
    ad_lock,               \* who holds the lock of port.readable: free, adapter, loop
    ad_pc,                 \* read(): idle, reading, cancelled (its reader was cancelled)
    ad_loop,               \* startReadLoop: none, reading, cleanup (stopped, lock not yet released)
    ad_errored,            \* the device vanished and the streams errored
    ad_call,               \* the last call that returned: name, cause, returned, raised, level
    ad_tick,              \* flips on every call that returns
    \* ---- SerialUploader: port, reader, writer
    us_port,               \* uploader.port: null, closed (not open), open
    us_reader,             \* uploader.reader is set
    us_writer,             \* uploader.writer is set
    us_read_pending,      \* a reader.read() of a timed-out read is still pending
    \* ---- REPL operations: what each call sends and what it has confirmed
    rp_by,                 \* who talks to the device: none, js (SerialUploader), py (WebSerial)
    rp_pc,                 \* how far startUpload has come with the SerialUploader calls
    rp_marker,             \* marker read since the last mode signal: none, raw REPL, >>>
    rp_interrupted,        \* CTRL-C was sent and no reset since
    rp_call,              \* the last call that finished
    \* ---- debug output of the hub on the BLE link
    debug_sent,           \* texts other than frames that the hub has put on the air
    \* ---- WebSerial JSON read loop: on_data of _start_json_read_loop
    jl_wire,               \* bytes the hub has printed and the port has not delivered yet
    jl_sent,               \* lines the hub has printed, in order
    jl_delivered,          \* messages handed to on_data_callback, in order
    jl_raised,            \* the exception the last on_data call raised
    \* ---- SerialAdapter.startReadLoop: one read loop, step by step
    rl_pc,                 \* where the loop is: none, pending (read() not settled), resolved (read() settled, continuation not run yet), cleanup, ended
    rl_running,            \* the loop's running flag
    rl_result,             \* what the settled read() holds: a chunk number, done or error
    rl_stream,             \* the port's readable stream: open, closed, cancelled or errored
    rl_queue,              \* chunks the stream holds for the next read(), in order
    rl_arrived,            \* number of chunks that have arrived
    rl_onData,             \* the chunks onData was called with, in order
    rl_onError,            \* number of onError calls
    rl_stopped,            \* the stop function has been invoked
    rl_late,              \* chunks onData was called with after the stop function had been invoked
    \* ---- finish_device_scan, one statement at a time
    fin_pc,                \* the statement finish_device_scan is at: 0 when it is not running
    fin_scan_in_progress,  \* scan_in_progress
    fin_ble_paused,        \* ble_paused
    fin_advertising,       \* the BLE radio advertises
    fin_devices,           \* discovered_devices
    fin_threshold,         \* scan_rssi_threshold
    fin_sent,              \* at each send_ble_framed of a device list: the list and the state of the radio
    fin_raised,           \* the exception finish_device_scan left by
    \* ---- SerialUploader.read on the reader that acquireStreams took
    ur_requests,           \* the reader's read requests that are not settled, oldest first: awaited (a read() call waits for it) or orphan (its read() call timed out)
    ur_queue,              \* chunks the stream holds, no read request waiting
    ur_sent,               \* number of chunks the device has sent
    ur_returned,           \* what the read() calls returned, in order
    ur_discarded,         \* chunks that settled a request nobody waits for
    \* ---- the web app's handleRefreshDevices and its refresh timeout
    rf_isRefreshing,       \* state.isRefreshing
    rf_pc,                 \* handleRefreshDevices: idle, sending (awaits PyBridge.refreshDevices) or retry_wait (the second before a retry)
    rf_retryCount,         \* retryCount of the invocation in flight
    rf_current,            \* the timer this.refreshTimeout names is pending
    rf_stale,              \* pending timers that this.refreshTimeout no longer names
    rf_list_pending,       \* the hub will answer with a device list
    rf_outcome             \* how the last step of handleRefreshDevices ended

scanVars == <<hub_time, scan_in_progress, scan_start_time, scan_rssi_threshold,
              discovered_devices, ble_paused, scan_ping_counter, last_ping_time,
              ble_advertising, ble_sent, ping_log, scan_log, watchdog_elapsed,
              last_check_time, tick_gap, hub_call, hub_raised, seen_rssi>>

framerVars == <<ble_time, frame_state, expected_payload_length, payload_buffer,
                frame_buffer, last_fragment_time, delivered, frame_raised, wire,
                sent_payloads, abandoned, fed_since_clear, delivered_from,
                discarded, resets>>

replVars == <<modal_state, up_pc, reader_held, wait_buffer, wait_success,
              enter_returned, upload_results, upload_attempted, upload_responses,
              py_buffer, py_found, py_returned>>

serialVars == <<connected, readerLock, loopPc, running, read_loop_stop,
                connection_lost, messages, opPc, started_busy, wrote,
                first_read_lock, op_error, device_gone, port_closed,
                disconnected_events, on_error_causes, in_flight_at_vanish>>

linkVars == <<ble_is_connected, last_connection_check>>

escVars == <<esc_pc, esc_by, esc_content, esc_text, esc_written>>

infoVars == <<board_mode, board_version, board_pending, info_pc, info_reads, info, info_results>>

waitVars == <<wt_pc, wt_kind, wt_elapsed, wt_reads, wt_result>>

adVars == <<ad_port, ad_reader, ad_lock, ad_pc, ad_loop, ad_errored, ad_call, ad_tick>>

usVars == <<us_port, us_reader, us_writer, us_read_pending>>

opsVars == <<rp_by, rp_pc, rp_marker, rp_interrupted, rp_call>>

noiseVars == <<debug_sent>>

jsonVars == <<jl_wire, jl_sent, jl_delivered, jl_raised>>

readVars == <<rl_pc, rl_running, rl_result, rl_stream, rl_queue, rl_arrived, rl_onData, rl_onError, rl_stopped, rl_late>>

finVars == <<fin_pc, fin_scan_in_progress, fin_ble_paused, fin_advertising, fin_devices, fin_threshold, fin_sent, fin_raised>>

urVars == <<ur_requests, ur_queue, ur_sent, ur_returned, ur_discarded>>

rfVars == <<rf_isRefreshing, rf_pc, rf_retryCount, rf_current, rf_stale, rf_list_pending, rf_outcome>>

vars == <<scanVars, framerVars, replVars, serialVars, linkVars, escVars, infoVars, waitVars, adVars, usVars, opsVars, noiseVars, jsonVars, readVars, finVars, urVars, rfVars>>

\* What a handler of one part leaves alone: the other parts.
notScan == <<framerVars, replVars, serialVars, linkVars, escVars, infoVars, waitVars, adVars, usVars, opsVars, noiseVars, jsonVars, readVars, finVars, urVars, rfVars>>
notFramer == <<scanVars, replVars, serialVars, linkVars, escVars, infoVars, waitVars, adVars, usVars, opsVars, noiseVars, jsonVars, readVars, finVars, urVars, rfVars>>
notRepl == <<scanVars, framerVars, serialVars, linkVars, escVars, infoVars, waitVars, adVars, usVars, opsVars, noiseVars, jsonVars, readVars, finVars, urVars, rfVars>>
notSerial == <<scanVars, framerVars, replVars, linkVars, escVars, infoVars, waitVars, adVars, usVars, opsVars, noiseVars, jsonVars, readVars, finVars, urVars, rfVars>>
notLink == <<framerVars, replVars, serialVars, escVars, infoVars, waitVars, adVars, usVars, opsVars, noiseVars, jsonVars, readVars, finVars, urVars, rfVars>>

-----------------------------------------------------------------------------
(* Hub device scan                                                         *)

\* Bound of the hub clock; a scan needs 2 * device_scan_timeout + 1 seconds
\* for the watchdog to be reachable.
MaxHubTime == 12

scan_redundancy_count == 3
scan_redundancy_delay == 1
device_scan_timeout == 5

Macs == {"aa01", "aa02"}
RssiValues == {-70, -50}
\* The threshold travels as text ('"PING":"-50"'); finish_device_scan applies int().
\* -50 is also an rssi a device can answer with: the filter's boundary.
Thresholds == {"all", "-50"}
ThresholdInt(text) == CASE text = "-60" -> -60
                        [] text = "-50" -> -50
                        [] text = "-70" -> -70

DeviceInfo(mac, rssi) ==
    [id |-> "M-" \o mac, rssi |-> rssi, battery |-> -1, type |-> "Unknown", mac |-> mac]

ScanInit0 ==
    /\ hub_time = 0
    /\ scan_in_progress = FALSE
    /\ scan_start_time = 0
    /\ scan_rssi_threshold = "all"
    /\ discovered_devices = <<>>
    /\ ble_paused = FALSE
    /\ scan_ping_counter = 0
    /\ last_ping_time = 0
    /\ ble_advertising = TRUE
    /\ ble_sent = <<>>
    /\ ping_log = <<>>
    /\ scan_log = <<>>
    /\ watchdog_elapsed = 0
    /\ last_check_time = 0
    /\ tick_gap = FALSE
    /\ hub_call = "none"
    /\ hub_raised = "none"
    /\ seen_rssi = [m \in Macs |-> {}]

\* time.time() moves on between two handlers of the main loop.
HubClock ==
    /\ hub_time < MaxHubTime
    /\ hub_time' = hub_time + 1
    /\ tick_gap' = (tick_gap \/ (scan_in_progress
                                 /\ hub_time + 1 - last_check_time > scan_redundancy_delay))
    /\ hub_call' = "clock"
    /\ UNCHANGED <<scan_in_progress, scan_start_time, scan_rssi_threshold,
                   discovered_devices, ble_paused, scan_ping_counter, last_ping_time,
                   ble_advertising, ble_sent, ping_log, scan_log, watchdog_elapsed,
                   last_check_time, hub_raised, seen_rssi>>
    /\ UNCHANGED notScan

\* start_device_scan: the guard of step 1.
StartRejectsMutant == FALSE
StartRejects == scan_in_progress

StartDeviceScan(rssi_threshold) ==
    IF StartRejects
    THEN \* "WARNING: Scan already in progress!" and return
         /\ hub_call' = "start_ignored"
         /\ hub_raised' = "none"
         /\ UNCHANGED <<hub_time, scan_in_progress, scan_start_time, scan_rssi_threshold,
                        discovered_devices, ble_paused, scan_ping_counter, last_ping_time,
                        ble_advertising, ble_sent, ping_log, scan_log, watchdog_elapsed,
                        last_check_time, tick_gap, seen_rssi>>
    ELSE /\ seen_rssi' = [m \in Macs |-> {}]
         /\ ble_advertising' = FALSE          \* ble.stop_advertising()
         /\ scan_in_progress' = TRUE
         /\ scan_start_time' = hub_time
         /\ scan_rssi_threshold' = rssi_threshold
         /\ discovered_devices' = <<>>
         /\ ble_paused' = TRUE
         /\ scan_ping_counter' = 1            \* 0, then the first PING, then 1
         /\ last_ping_time' = hub_time
         /\ ping_log' = <<hub_time>>
         /\ scan_log' = <<>>
         /\ watchdog_elapsed' = 0
         /\ last_check_time' = hub_time
         /\ tick_gap' = FALSE
         /\ hub_call' = "start_started"
         /\ hub_raised' = "none"
         /\ UNCHANGED <<hub_time, ble_sent>>


\* handle_device_scan: deduplicate by MAC, keep the strongest RSSI.
IndexOfMac(devices, mac) ==
    IF \E i \in 1..Len(devices) : devices[i].mac = mac
    THEN CHOOSE i \in 1..Len(devices) :
             /\ devices[i].mac = mac
             /\ \A j \in 1..(i - 1) : devices[j].mac # mac
    ELSE 0

\* handle_device_scan: when the response replaces the rssi of the record.
StrongerRssiMutant(rssi, existing) == TRUE
StrongerRssi(rssi, existing) == rssi > existing

\* handle_device_scan without its first two lines.
HandleDeviceScanMutant(mac, rssi) ==
    /\ hub_call' = "handle_device_scan"
    /\ hub_raised' = "none"
    /\ seen_rssi' = seen_rssi
    /\ LET i == IndexOfMac(discovered_devices, mac) IN
       IF i # 0
       THEN IF StrongerRssi(rssi, discovered_devices[i].rssi)
            THEN discovered_devices' =
                     [discovered_devices EXCEPT ![i].rssi = rssi]
            ELSE UNCHANGED discovered_devices
       ELSE discovered_devices' = Append(discovered_devices, DeviceInfo(mac, rssi))
    /\ UNCHANGED <<hub_time, scan_in_progress, scan_start_time, scan_rssi_threshold,
                   ble_paused, scan_ping_counter, last_ping_time, ble_advertising,
                   ble_sent, ping_log, scan_log, watchdog_elapsed, last_check_time,
                   tick_gap>>

HandleDeviceScan(mac, rssi) ==
    /\ hub_call' = "handle_device_scan"
    /\ hub_raised' = "none"
    /\ seen_rssi' = IF scan_in_progress
                    THEN [seen_rssi EXCEPT ![mac] = @ \cup {rssi}]
                    ELSE seen_rssi
    /\ IF ~scan_in_progress
       THEN UNCHANGED discovered_devices          \* ignore stray responses
       ELSE LET i == IndexOfMac(discovered_devices, mac) IN
            IF i # 0
            THEN IF StrongerRssi(rssi, discovered_devices[i].rssi)
                 THEN discovered_devices' =
                          [discovered_devices EXCEPT ![i].rssi = rssi]
                 ELSE UNCHANGED discovered_devices
            ELSE discovered_devices' = Append(discovered_devices, DeviceInfo(mac, rssi))
    /\ UNCHANGED <<hub_time, scan_in_progress, scan_start_time, scan_rssi_threshold,
                   ble_paused, scan_ping_counter, last_ping_time, ble_advertising,
                   ble_sent, ping_log, scan_log, watchdog_elapsed, last_check_time,
                   tick_gap>>

\* finish_device_scan: which devices the RSSI filter keeps.
PassesThresholdMutant(rssi, threshold) ==
    threshold = "all" \/ rssi > ThresholdInt(threshold)
PassesThreshold(rssi, threshold) ==
    threshold = "all" \/ rssi >= ThresholdInt(threshold)

\* finish_device_scan: the RSSI filter.
RECURSIVE FilterByRssi(_, _)
FilterByRssi(devices, threshold) ==
    IF devices = <<>> THEN <<>>
    ELSE LET rest == FilterByRssi(Tail(devices), threshold) IN
         IF PassesThreshold(Head(devices).rssi, threshold)
         THEN <<Head(devices)>> \o rest
         ELSE rest

\* check_scan_progress: the condition of the redundant PING.
ShouldSendPingMutant(current_time) ==
    /\ scan_ping_counter <= scan_redundancy_count
    /\ current_time - last_ping_time >= scan_redundancy_delay
ShouldSendPing(current_time) ==
    /\ scan_ping_counter < scan_redundancy_count
    /\ current_time - last_ping_time >= scan_redundancy_delay

\* check_scan_progress: the watchdog's condition.
WatchdogDueMutant(elapsed) == elapsed > device_scan_timeout
WatchdogDue(elapsed) == elapsed > device_scan_timeout * 2

\* check_scan_progress: the timeout that ends the scan.
ScanTimedOutMutant(elapsed) == FALSE
ScanTimedOut(elapsed) == elapsed > device_scan_timeout

\* What the watchdog leaves in ble_paused.
WatchdogBlePausedMutant == ble_paused
WatchdogBlePaused == FALSE

\* The log of the current scan: an event is logged the first time it runs.
Logged(log, event) ==
    IF \E i \in 1..Len(log) : log[i] = event THEN log ELSE Append(log, event)

\* check_scan_progress(current_time), called by the main loop while
\* scan_in_progress.  The document gives the function in two excerpts (the
\* watchdog; the PINGs and the timeout) and shows no return after the
\* watchdog's reset: `returns` covers both readings.
CheckScanProgress(current_time, returns) ==
    LET elapsed == current_time - scan_start_time
        watchdog == WatchdogDue(elapsed)
        stop == watchdog /\ returns
        ping == ~stop /\ ShouldSendPing(current_time)
        finish == ~stop /\ ScanTimedOut(elapsed)
        log1 == IF watchdog THEN Logged(scan_log, "watchdog") ELSE scan_log
        log2 == IF finish THEN Logged(log1, "finish") ELSE log1
    IN  /\ scan_in_progress' = IF watchdog \/ finish THEN FALSE ELSE scan_in_progress
        /\ ble_paused' = IF finish THEN FALSE
                         ELSE IF watchdog THEN WatchdogBlePaused
                         ELSE ble_paused
        /\ ble_advertising' = IF watchdog \/ finish THEN TRUE ELSE ble_advertising
        /\ scan_ping_counter' = IF ping THEN scan_ping_counter + 1 ELSE scan_ping_counter
        /\ last_ping_time' = IF ping THEN current_time ELSE last_ping_time
        /\ ping_log' = IF ping THEN Append(ping_log, current_time) ELSE ping_log
        /\ discovered_devices' =
               IF finish THEN FilterByRssi(discovered_devices, scan_rssi_threshold)
               ELSE discovered_devices
        /\ ble_sent' =
               IF finish
               THEN Append(ble_sent, [type |-> "devices",
                                      list |-> FilterByRssi(discovered_devices,
                                                            scan_rssi_threshold)])
               ELSE ble_sent
        /\ scan_log' = log2
        /\ watchdog_elapsed' = IF watchdog /\ watchdog_elapsed = 0 THEN elapsed
                               ELSE watchdog_elapsed
        /\ last_check_time' = current_time
        /\ hub_call' = IF watchdog /\ finish THEN "check_watchdog_finish"
                       ELSE IF watchdog THEN "check_watchdog"
                       ELSE IF finish THEN "check_finish"
                       ELSE IF ping THEN "check_ping"
                       ELSE "check"
        /\ hub_raised' = "none"
        /\ UNCHANGED <<hub_time, scan_start_time, scan_rssi_threshold, tick_gap,
                       seen_rssi>>

\* Main loop, step 3: the guard of the call.
MainLoopChecksScan == scan_in_progress

\* Main loop, step 1: a "PING" command from the BLE command buffer.
HubPingCommand ==
    /\ \E t \in Thresholds : StartDeviceScan(t)
    /\ UNCHANGED notScan

\* Main loop, step 2: a deviceScan response from the ESP-NOW buffer.
HubScanResponse ==
    /\ \E mac \in Macs, rssi \in RssiValues : HandleDeviceScan(mac, rssi)
    /\ UNCHANGED notScan

\* Main loop, step 3.
HubTick ==
    /\ MainLoopChecksScan
    /\ \E returns \in BOOLEAN : CheckScanProgress(hub_time, returns)
    /\ UNCHANGED notScan

ScanNext == HubClock \/ HubPingCommand \/ HubScanResponse \/ HubTick

\* ---- main loop, step 5: the BLE connection monitor ----------------------

LinkInit0 ==
    /\ ble_is_connected = FALSE
    /\ last_connection_check = 0

\* "if current_time - last_connection_check > 5.0"
connection_check_interval == 5

\* Step 5's condition: the link is down and the last check is old enough.
\* Neither scan_in_progress nor ble_paused is looked at.
ReadvertiseDue(current_time) ==
    /\ ~ble_is_connected
    /\ current_time - last_connection_check > connection_check_interval

\* The client connects to the hub or the link drops.
BleLinkChanges ==
    /\ ble_is_connected' = ~ble_is_connected
    /\ UNCHANGED <<last_connection_check, scanVars>>
    /\ UNCHANGED notLink

\* Main loop, step 5: re-advertise while the link is down.
HubMonitorsBle ==
    /\ ReadvertiseDue(hub_time)
    /\ ble_advertising' = TRUE                \* hub.ble.advertise()
    /\ last_connection_check' = hub_time
    /\ hub_call' = "monitor_ble"
    /\ hub_raised' = "none"
    /\ UNCHANGED <<hub_time, scan_in_progress, scan_start_time, scan_rssi_threshold,
                   discovered_devices, ble_paused, scan_ping_counter, last_ping_time,
                   ble_sent, ping_log, scan_log, watchdog_elapsed, last_check_time,
                   tick_gap, seen_rssi, ble_is_connected>>
    /\ UNCHANGED notLink

\* The main loop with its connection monitor, in a room where no module
\* answers: the ESP-NOW buffer stays empty and step 2 never runs.
HubLoopNext == HubClock \/ HubPingCommand \/ HubTick \/ BleLinkChanges \/ HubMonitorsBle

-----------------------------------------------------------------------------
(* Web app frame reassembly: MSG:<length>|<payload>                        *)
(* Text is a sequence of one-character strings.                            *)

\* Bounds of the framer's environment.
MaxPayloadLen == 2
MaxFrames == 2
MaxBleTime == 3

\* The k-th frame carries one to MaxPayloadLen copies of its own byte, so
\* that bytes of different frames can be told apart.  A payload is one JSON
\* document: never empty.
PayloadByte(k) == <<"a", "b", "c", "d", "e">>[k]

Payloads(k) == {[i \in 1..n |-> PayloadByte(k)] : n \in 1..MaxPayloadLen}

MSG == <<"M", "S", "G", ":">>

DigitChars == <<"0", "1", "2", "3", "4", "5", "6", "7", "8", "9">>

IsDigit(c) == \E d \in 1..10 : DigitChars[d] = c

DigitValue(c) == (CHOOSE d \in 1..10 : DigitChars[d] = c) - 1

\* f"{payload_length}": the decimal text of a length.
RECURSIVE Decimal(_)
Decimal(n) ==
    IF n < 10 THEN <<DigitChars[n + 1]>>
    ELSE Decimal(n \div 10) \o <<DigitChars[(n % 10) + 1]>>

\* send_ble_framed: header and payload as the hub puts them on the air.
FrameBytes(payload) == MSG \o Decimal(Len(payload)) \o <<"|">> \o payload

\* text.index(pattern, from): the first place at or after `from` where
\* pattern starts, 0 when there is none (Python raises ValueError).
StartsAt(text, pattern, i) ==
    /\ i + Len(pattern) - 1 <= Len(text)
    /\ \A k \in 1..Len(pattern) : text[i + k - 1] = pattern[k]

IndexFrom(text, pattern, from) ==
    IF \E i \in from..Len(text) : StartsAt(text, pattern, i)
    THEN CHOOSE i \in from..Len(text) :
             /\ StartsAt(text, pattern, i)
             /\ \A j \in from..(i - 1) : ~StartsAt(text, pattern, j)
    ELSE 0

Contains(text, pattern) == IndexFrom(text, pattern, 1) # 0

\* int(length_str) succeeds on a non-empty run of digits.
IsInt(text) == text # <<>> /\ \A i \in 1..Len(text) : IsDigit(text[i])

RECURSIVE IntOf(_)
IntOf(text) ==
    IF text = <<>> THEN 0
    ELSE IntOf(SubSeq(text, 1, Len(text) - 1)) * 10 + DigitValue(text[Len(text)])

FramerInit0 ==
    /\ ble_time = 0
    /\ frame_state = "waiting_header"
    /\ expected_payload_length = 0
    /\ payload_buffer = <<>>
    /\ frame_buffer = <<>>
    /\ last_fragment_time = 0
    /\ delivered = <<>>
    /\ frame_raised = "none"
    /\ wire = <<>>
    /\ sent_payloads = <<>>
    /\ abandoned = 0
    /\ fed_since_clear = <<>>
    /\ delivered_from = <<>>
    /\ discarded = <<>>
    /\ resets = 0

\* "Reset buffers if no data received for 2 seconds"
buffer_timeout == 2

BufferTimedOut(current_time) == (current_time - last_fragment_time) > buffer_timeout

\* What the timeout reset leaves in _frame_state, _frame_buffer, _payload_buffer.
TimeoutResetMutant == [state |-> frame_state, frame |-> <<>>, payload |-> payload_buffer]
TimeoutReset == [state |-> "waiting_header", frame |-> <<>>, payload |-> <<>>]

\* on_ble_data: the waiting_header branch, from the buffers st.
WaitingHeader(st, data) ==
    LET fb == st.frame \o data
        header_start == IndexFrom(fb, MSG, 1)
        header_end == IndexFrom(fb, <<"|">>, header_start)
        length_str == SubSeq(fb, header_start + 4, header_end - 1)
    IN  IF ~(Contains(fb, MSG) /\ Contains(fb, <<"|">>))
        THEN [state |-> "waiting_header", frame |-> fb, payload |-> st.payload,
              expected |-> st.expected, out |-> <<>>, raised |-> "none"]
        ELSE IF header_end = 0 \/ ~IsInt(length_str)
        THEN [state |-> "waiting_header", frame |-> fb, payload |-> st.payload,
              expected |-> st.expected, out |-> <<>>, raised |-> "ValueError"]
        ELSE [state |-> "receiving_payload", frame |-> fb,
              payload |-> SubSeq(fb, header_end + 1, Len(fb)),
              expected |-> IntOf(length_str), out |-> <<>>, raised |-> "none"]

\* on_ble_data: when the receiving_payload branch has the whole payload.
PayloadComplete(buffer, expected) == Len(buffer) >= expected

\* on_ble_data: the receiving_payload branch, from the buffers st.
ReceivingPayload(st, data) ==
    LET pb == st.payload \o data IN
    IF PayloadComplete(pb, st.expected)
    THEN [state |-> "waiting_header", frame |-> <<>>, payload |-> <<>>,
          expected |-> st.expected, out |-> <<SubSeq(pb, 1, st.expected)>>,
          raised |-> "none"]
    ELSE [state |-> "receiving_payload", frame |-> st.frame, payload |-> pb,
          expected |-> st.expected, out |-> <<>>, raised |-> "none"]

\* The buffers a notification at current_time is processed from: the
\* timeout check runs first, on every fragment.
AssemblyAtEntry(current_time) ==
    IF BufferTimedOut(current_time)
    THEN [state |-> TimeoutReset.state, frame |-> TimeoutReset.frame,
          payload |-> TimeoutReset.payload, expected |-> expected_payload_length]
    ELSE [state |-> frame_state, frame |-> frame_buffer,
          payload |-> payload_buffer, expected |-> expected_payload_length]

\* _last_fragment_time after a fragment that arrived at current_time.
LastFragmentAt(current_time) == current_time

\* on_ble_data(data) at current_time: the timeout check, then the state machine.
OnBleData(data, current_time) ==
    LET timed_out == BufferTimedOut(current_time)
        dropped == timed_out /\ (frame_buffer # <<>> \/ payload_buffer # <<>>
                                 \/ frame_state = "receiving_payload")
    IN  \E st0 \in {AssemblyAtEntry(current_time)} :
        \E r \in {IF st0.state = "waiting_header"
                  THEN WaitingHeader(st0, data)
                  ELSE ReceivingPayload(st0, data)} :
            /\ frame_state' = r.state
            /\ frame_buffer' = r.frame
            /\ payload_buffer' = r.payload
            /\ expected_payload_length' = r.expected
            /\ delivered' = delivered \o r.out
            /\ frame_raised' = r.raised
            /\ last_fragment_time' = LastFragmentAt(current_time)
            /\ fed_since_clear' =
                   IF r.out # <<>> THEN <<>>
                   ELSE IF dropped THEN data
                   ELSE fed_since_clear \o data
            /\ delivered_from' =
                   IF r.out = <<>> THEN <<>>
                   ELSE IF dropped THEN data
                   ELSE fed_since_clear \o data
            /\ discarded' = IF dropped THEN payload_buffer ELSE discarded
            /\ resets' = IF dropped THEN resets + 1 ELSE resets

\* The hub starts to send the next frame (send_ble_framed).
HubSendsFrame ==
    /\ wire = <<>>
    /\ Len(sent_payloads) < MaxFrames
    /\ \E payload \in Payloads(Len(sent_payloads) + 1) :
           /\ wire' = FrameBytes(payload)
           /\ sent_payloads' = Append(sent_payloads, payload)
    /\ delivered_from' = <<>>
    /\ UNCHANGED <<ble_time, frame_state, expected_payload_length, payload_buffer,
                   frame_buffer, last_fragment_time, delivered, frame_raised,
                   abandoned, fed_since_clear, discarded, resets>>
    /\ UNCHANGED notFramer

\* One BLE notification arrives: the next k bytes of the frame, in any chunking.
BleNotification ==
    /\ wire # <<>>
    /\ \E k \in 1..Len(wire) :
           /\ OnBleData(SubSeq(wire, 1, k), ble_time)
           /\ wire' = SubSeq(wire, k + 1, Len(wire))
    /\ UNCHANGED <<ble_time, sent_payloads, abandoned>>
    /\ UNCHANGED notFramer

\* The transmitter stalls: the rest of the frame is never sent.
HubStalls ==
    /\ wire # <<>>
    /\ Len(wire) < Len(FrameBytes(sent_payloads[Len(sent_payloads)]))
    /\ wire' = <<>>
    /\ abandoned' = abandoned + 1
    /\ delivered_from' = <<>>
    /\ UNCHANGED <<ble_time, frame_state, expected_payload_length, payload_buffer,
                   frame_buffer, last_fragment_time, delivered, frame_raised,
                   sent_payloads, fed_since_clear, discarded, resets>>
    /\ UNCHANGED notFramer

\* current_time moves on.  Only a silence during an assembly matters: with
\* empty buffers, or once the timeout has passed, more silence changes nothing.
BleClock ==
    /\ ble_time < MaxBleTime
    /\ ~BufferTimedOut(ble_time)
    /\ frame_buffer # <<>> \/ frame_state = "receiving_payload"
    /\ ble_time' = ble_time + 1
    /\ delivered_from' = <<>>
    /\ UNCHANGED <<frame_state, expected_payload_length, payload_buffer,
                   frame_buffer, last_fragment_time, delivered, frame_raised, wire,
                   sent_payloads, abandoned, fed_since_clear, discarded, resets>>
    /\ UNCHANGED notFramer

-----------------------------------------------------------------------------
(* Claims about the device scan, checked under SpecScan                    *)

PingSpacingKept ==
    \A i \in 1..(Len(ping_log) - 1) :
        ping_log[i + 1] - ping_log[i] >= scan_redundancy_delay

FinishedNormally == scan_log # <<>> /\ scan_log[1] = "finish"

\* C7, as stated: a scan that finish() ended (no force-reset first) has sent
\* exactly scan_redundancy_count PINGs, at least scan_redundancy_delay apart,
\* whatever the times of the check_scan_progress calls were.
C7_ExactlyThreeForAnyTicks ==
    FinishedNormally =>
        (Len(ping_log) = scan_redundancy_count /\ PingSpacingKept)

\* C7, amended: a scan never sends more than scan_redundancy_count PINGs,
\* consecutive PINGs are at least scan_redundancy_delay apart, and a scan
\* that finish() ended has sent exactly scan_redundancy_count of them when
\* check_scan_progress ran at least once in every scan_redundancy_delay.
C7_AtMostThreeAndThreeWhenTicked ==
    /\ Len(ping_log) <= scan_redundancy_count
    /\ Len(ping_log) = scan_ping_counter
    /\ PingSpacingKept
    /\ (FinishedNormally /\ ~tick_gap) => Len(ping_log) = scan_redundancy_count

C7_Witness ==
    /\ scan_log = <<"finish">>
    /\ ~tick_gap
    /\ Len(ping_log) = scan_redundancy_count
    /\ ping_log[3] - ping_log[1] = 2 * scan_redundancy_delay

\* C8: the watchdog fires only in a scan that finish() has not ended, and
\* only more than 2 * device_scan_timeout after the scan's start; a scan that
\* finish() ended is never force-reset afterwards.
C8_WatchdogOnlyWhenStuck ==
    \A i \in 1..Len(scan_log) :
        scan_log[i] = "watchdog" =>
            /\ i = 1
            /\ watchdog_elapsed > 2 * device_scan_timeout

C8_Witness ==
    /\ scan_log # <<>>
    /\ scan_log[1] = "watchdog"
    /\ ~scan_in_progress

\* C9: whenever no scan is in progress, BLE is not paused and advertising is
\* on again: the pause of start_device_scan is undone by finish_device_scan
\* and by the watchdog.
C9_IdleRadioResumed ==
    ~scan_in_progress => (~ble_paused /\ ble_advertising)

C9_Witness ==
    /\ ~scan_in_progress
    /\ scan_log = <<"watchdog">>
    /\ ~ble_paused
    /\ ble_advertising

sessionVars == <<scan_in_progress, scan_start_time, scan_rssi_threshold,
                 discovered_devices, ble_paused, scan_ping_counter, last_ping_time,
                 ble_advertising, ble_sent, ping_log>>

\* C10, as stated: start_device_scan called during a scan ends with
\* ScanBusyError.
C10_RejectedWithScanBusyError ==
    hub_call = "start_ignored" => hub_raised = "ScanBusyError"

\* C10, amended: start_device_scan called during a scan returns without
\* raising and changes nothing of the running session: the flag, the start
\* time, the threshold, the devices, the PING counter and time, the radio and
\* what was sent all stay, and no PING is broadcast.
C10_StartDuringScanChangesNothing ==
    [][(scan_in_progress /\ hub_call' \in {"start_ignored", "start_started"})
          => (hub_raised' = "none" /\ UNCHANGED sessionVars)]_vars

C10_Witness ==
    /\ hub_call = "start_ignored"
    /\ scan_ping_counter = 2
    /\ Len(discovered_devices) = 2
    /\ scan_rssi_threshold = "-50"

MaxOf(values) == CHOOSE x \in values : \A y \in values : y <= x

RecordsOf(devices, mac) == {i \in 1..Len(devices) : devices[i].mac = mac}

JustFinished == hub_call \in {"check_finish", "check_watchdog_finish"}

EmittedList == ble_sent[Len(ble_sent)].list

\* C12: the list finish_device_scan emits holds exactly the devices that
\* answered in the scan and pass the threshold, each once with its strongest
\* rssi: every one of them when the threshold is "all", otherwise those
\* with rssi >= threshold, none weaker and none that qualifies left out.
C12_FinishEmitsExactlyThePassing ==
    JustFinished =>
        /\ ble_sent # <<>>
        /\ discovered_devices = EmittedList
        /\ \A m \in Macs :
               IF seen_rssi[m] # {}
                  /\ (scan_rssi_threshold = "all"
                      \/ MaxOf(seen_rssi[m]) >= ThresholdInt(scan_rssi_threshold))
               THEN /\ Cardinality(RecordsOf(EmittedList, m)) = 1
                    /\ \A i \in RecordsOf(EmittedList, m) :
                           EmittedList[i].rssi = MaxOf(seen_rssi[m])
               ELSE RecordsOf(EmittedList, m) = {}

\* A scan with threshold -50 ends: aa01 answered at the threshold and is
\* emitted, aa02 answered weaker and is not.
C12_Witness ==
    /\ JustFinished
    /\ scan_rssi_threshold = "-50"
    /\ seen_rssi["aa01"] = {-50}
    /\ seen_rssi["aa02"] = {-70}
    /\ EmittedList = <<DeviceInfo("aa01", -50)>>

\* C13: between the pause of start_device_scan and the resume of
\* finish_device_scan or the watchdog, nothing resumes the radio: while a
\* scan is in progress BLE advertising stays stopped.
C13_RadioPausedWhileScanning ==
    (scan_in_progress /\ ble_paused) => ~ble_advertising

-----------------------------------------------------------------------------
(* Claims about the frame reassembly, checked under SpecFramer             *)

IsSubstring(part, text) == part = <<>> \/ Contains(text, part)

IsSuffix(part, text) ==
    /\ Len(part) <= Len(text)
    /\ SubSeq(text, Len(text) - Len(part) + 1, Len(text)) = part

\* C5: once every byte of one frame MSG:<n>|<payload> has been notified, in
\* whatever chunks (and with no stall and no timeout), exactly that payload
\* has been delivered, once.
C5_OneFrameAnyChunkingDeliveredOnce ==
    (Len(sent_payloads) = 1 /\ wire = <<>> /\ abandoned = 0 /\ resets = 0)
        => delivered = <<sent_payloads[1]>>

\* C6: a timeout reset empties the assembly, so nothing buffered before it is
\* carried over: the buffers hold only bytes notified since they were last
\* emptied, and a delivered payload is made only of bytes notified since then.
C6_NoCarryoverAfterTimeout ==
    /\ delivered_from # <<>> =>
           /\ delivered # <<>>
           /\ IsSubstring(delivered[Len(delivered)], delivered_from)
    /\ frame_state = "waiting_header" => frame_buffer = fed_since_clear
    /\ frame_state = "receiving_payload" => IsSuffix(payload_buffer, fed_since_clear)

\* A frame was abandoned with part of its payload buffered, the timeout
\* dropped it, and the next frame was then delivered as sent.
C6_Witness ==
    /\ resets = 1
    /\ discarded # <<>>
    /\ Len(sent_payloads) = 2
    /\ delivered = <<sent_payloads[2]>>
    /\ frame_state = "waiting_header"
    /\ frame_buffer = <<>>

-----------------------------------------------------------------------------
(* SerialUploader: raw REPL entry and the upload flow (serialUploader.js,  *)
(* HubSetupModal.startUpload) and WebSerial.enter_raw_repl_mode            *)

\* Number of 500 ms reads that fit into a prompt wait before its timeout.
MaxWaitReads == 2

\* Text is a sequence of characters, so that buffer.includes(...) is computed.
RAW_REPL == <<"r", "a", "w", " ", "R", "E", "P", "L">>
RAW_REPL_MARKER == 
    <<"r", "a", "w", " ", "R", "E", "P", "L", ";", " ", "C", "T", "R", "L", "-", "B", " ", "t", "o", " ", "e", "x", "i", "t">>
PROMPT == <<">", ">", ">">>
OK == <<"O", "K">>
TRACEBACK == <<"T", "r", "a", "c", "e", "b", "a", "c", "k">>

\* What one read can return while the host waits: nothing (the read timed
\* out), the raw REPL banner whole or in two parts, the normal prompt, the
\* acknowledgement of an executed command, or output of the running program.
BannerHead == <<"r", "a", "w", " ", "R", "E">>
BannerTail == 
    <<"P", "L", ";", " ", "C", "T", "R", "L", "-", "B", " ", "t", "o", " ", "e", "x", "i", "t">>
DeviceChunks == {<<>>, RAW_REPL_MARKER, BannerHead, BannerTail, PROMPT \o <<" ">>, OK,
                 <<"p", "i", "n", "g">>}

ReadSequences == [1..MaxWaitReads -> DeviceChunks]

hub_files == <<"main.py", "lib/hub.py">>

ReplInit0 ==
    /\ modal_state = "initial"
    /\ up_pc = "idle"
    /\ reader_held = FALSE
    /\ wait_buffer = <<>>
    /\ wait_success = "none"
    /\ enter_returned = "none"
    /\ upload_results = <<>>
    /\ upload_attempted = <<>>
    /\ upload_responses = <<>>
    /\ py_buffer = <<>>
    /\ py_found = "none"
    /\ py_returned = "none"

\* waitForPrompt: reads until the buffer includes expectedPrompt, 'OK' or
\* '>>>'; false when the reads that fit into the timeout are used up.
PromptSeen(buffer, expectedPrompt) ==
    \/ Contains(buffer, expectedPrompt)
    \/ Contains(buffer, OK)
    \/ Contains(buffer, PROMPT)

RECURSIVE WaitLoop(_, _, _, _)
WaitLoop(expectedPrompt, reads, i, buffer) ==
    IF i > Len(reads) THEN [result |-> FALSE, buffer |-> buffer]
    ELSE IF PromptSeen(buffer \o reads[i], expectedPrompt)
         THEN [result |-> TRUE, buffer |-> buffer \o reads[i]]
         ELSE WaitLoop(expectedPrompt, reads, i + 1, buffer \o reads[i])

waitForPrompt(expectedPrompt, reads) == WaitLoop(expectedPrompt, reads, 1, <<>>)

\* enterRawRepl's last statement.
EnterRawReplReturns(success) == TRUE

\* The catch block of startUpload: error state, streams released.
UploadCatch ==
    /\ modal_state' = "error"
    /\ reader_held' = FALSE
    /\ up_pc' = "done"

\* startUpload up to acquireStreams.
StartUpload ==
    /\ modal_state = "initial"
    /\ up_pc = "idle"
    /\ \E acquired \in BOOLEAN :
          IF acquired
          THEN modal_state' = "uploading" /\ reader_held' = TRUE /\ up_pc' = "acquired"
          ELSE UploadCatch
    /\ UNCHANGED <<wait_buffer, wait_success, enter_returned, upload_results,
                   upload_attempted, upload_responses,
                   py_buffer, py_found, py_returned>>
    /\ UNCHANGED notRepl

\* enterRawRepl: CTRL-C three times, drain, CTRL-A, wait for 'raw REPL'.
\* A failed write rejects the call; the outcome of the wait does not.
EnterRawRepl ==
    /\ up_pc = "acquired"
    /\ \E written \in BOOLEAN : \E reads \in ReadSequences :
          IF ~written
          THEN /\ enter_returned' = "raised"
               /\ UploadCatch
               /\ UNCHANGED <<wait_buffer, wait_success>>
          ELSE \E w \in {waitForPrompt(RAW_REPL, reads)} :
               /\ wait_buffer' = w.buffer
               /\ wait_success' = IF w.result THEN "true" ELSE "false"
               /\ enter_returned' = IF EnterRawReplReturns(w.result) THEN "true" ELSE "false"
               /\ up_pc' = "entered"
               /\ UNCHANGED <<modal_state, reader_held>>
    /\ UNCHANGED <<upload_results, upload_attempted, upload_responses, py_buffer, py_found, py_returned>>
    /\ UNCHANGED notRepl

\* uploadFile: the code is written and executed; the Error thrown for a
\* response with 'Traceback' or 'Error' is thrown inside the try block whose
\* catch logs 'No response (might be OK)', so only a failed write leaves by
\* exception.
uploadFileThrows(written, response) == ~written

\* uploadMultipleFiles: the catch block of the loop records the error and
\* the loop goes on with the next file.
ContinuesAfterErrorMutant == FALSE
ContinuesAfterError == TRUE

\* uploadMultipleFiles: the loop over the files, from file i.
\* uploadFile reads a response only after its writes went through.
RECURSIVE UploadLoop(_, _, _, _)
UploadLoop(i, written, response, acc) ==
    IF i > Len(hub_files) THEN acc
    ELSE LET threw == uploadFileThrows(written[i], response[i])
             next == [results |-> Append(acc.results,
                                         [path |-> hub_files[i],
                                          status |-> IF threw THEN "error" ELSE "success"]),
                      attempted |-> Append(acc.attempted, hub_files[i]),
                      responses |-> Append(acc.responses,
                                           IF written[i] THEN response[i] ELSE <<>>)]
         IN  IF threw /\ ~ContinuesAfterError THEN next
             ELSE UploadLoop(i + 1, written, response, next)

UploadMultipleFiles ==
    /\ up_pc = "entered"
    /\ \E written \in [1..Len(hub_files) -> BOOLEAN] :
       \E response \in [1..Len(hub_files) -> {<<>>, OK, TRACEBACK}] :
       \E r \in {UploadLoop(1, written, response,
                            [results |-> <<>>, attempted |-> <<>>, responses |-> <<>>])} :
          /\ upload_results' = r.results
          /\ upload_attempted' = r.attempted
          /\ upload_responses' = r.responses
    /\ up_pc' = "uploaded"
    /\ UNCHANGED <<modal_state, reader_held, wait_buffer, wait_success, enter_returned,
                   py_buffer, py_found, py_returned>>
    /\ UNCHANGED notRepl

\* exitRawRepl: CTRL-B and a pause; nothing is read back.
ExitRawRepl ==
    /\ up_pc = "uploaded"
    /\ \E written \in BOOLEAN :
          IF written
          THEN up_pc' = "exited" /\ UNCHANGED <<modal_state, reader_held>>
          ELSE UploadCatch
    /\ UNCHANGED <<wait_buffer, wait_success, enter_returned, upload_results,
                   upload_attempted, upload_responses,
                   py_buffer, py_found, py_returned>>
    /\ UNCHANGED notRepl

\* resetBoard catches its own errors.
ResetBoard ==
    /\ up_pc = "exited"
    /\ up_pc' = "reset"
    /\ UNCHANGED <<modal_state, reader_held, wait_buffer, wait_success, enter_returned,
                   upload_results, upload_attempted, upload_responses, py_buffer, py_found, py_returned>>
    /\ UNCHANGED notRepl

\* releaseStreams, then the check of the results.
ReleaseStreams ==
    /\ up_pc = "reset"
    /\ reader_held' = FALSE
    /\ up_pc' = "done"
    /\ modal_state' = IF \E i \in 1..Len(upload_results) : upload_results[i].status = "error"
                      THEN "error" ELSE "success"
    /\ UNCHANGED <<wait_buffer, wait_success, enter_returned, upload_results,
                   upload_attempted, upload_responses,
                   py_buffer, py_found, py_returned>>
    /\ UNCHANGED notRepl

\* SerialAdapter.readUntil: reads until the buffer includes `expected`.
RECURSIVE ReadUntilLoop(_, _, _, _)
ReadUntilLoop(expected, reads, i, buffer) ==
    IF i > Len(reads) THEN [found |-> FALSE, buffer |-> buffer]
    ELSE IF Contains(buffer \o reads[i], expected)
         THEN [found |-> TRUE, buffer |-> buffer \o reads[i]]
         ELSE ReadUntilLoop(expected, reads, i + 1, buffer \o reads[i])

readUntil(expected, reads) == ReadUntilLoop(expected, reads, 1, <<>>)

\* enter_raw_repl_mode's branch for a marker that was not found: it prints
\* a warning and the call returns.
EnterRawReplModeRaises(found) == FALSE

\* WebSerial.enter_raw_repl_mode: Ctrl-A, then readUntil the banner.
EnterRawReplMode ==
    /\ py_returned = "none"
    /\ \E reads \in ReadSequences :
       \E r \in {readUntil(RAW_REPL_MARKER, reads)} :
          /\ py_buffer' = r.buffer
          /\ py_found' = IF r.found THEN "true" ELSE "false"
          /\ py_returned' = IF EnterRawReplModeRaises(r.found) THEN "raised" ELSE "returned"
    /\ UNCHANGED <<modal_state, up_pc, reader_held, wait_buffer, wait_success,
                   enter_returned, upload_results, upload_attempted, upload_responses>>
    /\ UNCHANGED notRepl

ReplNext ==
    StartUpload \/ EnterRawRepl \/ UploadMultipleFiles \/ ExitRawRepl \/ ResetBoard
        \/ ReleaseStreams \/ EnterRawReplMode

-----------------------------------------------------------------------------
(* Claims about the raw REPL entry                                         *)

\* C1: EnterRaw reports success only when the raw-mode marker was read: a
\* call that did not read the marker within its timeout fails with an error,
\* and the flow never goes on as if the device were at the raw prompt.
C1_NoSuccessWithoutMarker ==
    /\ enter_returned = "true" => Contains(wait_buffer, RAW_REPL)
    /\ up_pc \in {"entered", "uploaded", "exited", "reset"}
          => Contains(wait_buffer, RAW_REPL)
    /\ py_returned = "returned" => Contains(py_buffer, RAW_REPL_MARKER)

\* C37: waitForPrompt(expectedPrompt) returns true only when the text read
\* during the wait contains expectedPrompt: enterRawRepl's wait for
\* 'raw REPL' does not succeed on a normal prompt or on other output.
C37_TrueOnlyWithExpectedPrompt ==
    wait_success = "true" => Contains(wait_buffer, RAW_REPL)

-----------------------------------------------------------------------------
(* SerialAdapter.startReadLoop / read and the WebSerial operations that    *)
(* share the port with it (enter_repl_mode, get_board_info)                *)

\* Bound on the chunks the read loop delivers.
MaxMessages == 2

\* Bound on the calls of on_connection_lost_callback after which the caller
\* no longer restarts the read loop.
MaxDisconnectEvents == 2

Ops == {"enter_repl_mode", "get_board_info"}

InProgress(o) == opPc[o] # "idle"

\* webSerial.py keeps no 'busy' or 'evaluating' flag and no record of the
\* operation in progress.
busy == FALSE
current_operation == "None"

SerialInit0 ==
    /\ connected = FALSE
    /\ readerLock = "free"
    /\ loopPc = "none"
    /\ running = FALSE
    /\ read_loop_stop = "None"
    /\ connection_lost = FALSE
    /\ messages = 0
    /\ opPc = [o \in Ops |-> "idle"]
    /\ started_busy = [o \in Ops |-> FALSE]
    /\ wrote = [o \in Ops |-> FALSE]
    /\ first_read_lock = [o \in Ops |-> "none"]
    /\ op_error = [o \in Ops |-> "none"]
    /\ device_gone = FALSE
    /\ port_closed = FALSE
    /\ disconnected_events = 0
    /\ on_error_causes = {}
    /\ in_flight_at_vanish = [o \in Ops |-> FALSE]

\* startReadLoop's catch block: if (running && onError) onError(error).
OnErrorFiresMutant(isRunning) == TRUE
OnErrorFires(isRunning) == isRunning

\* on_error of _start_json_read_loop: whatever the error is, it calls
\* on_connection_lost_callback.
OnError(l, cause) ==
    [l EXCEPT !.lost = TRUE, !.events = @ + 1, !.causes = @ \cup {cause}]

\* The stop function startReadLoop returns: running = false and a cancel()
\* that nobody awaits. The loop's pending read then ends and the loop goes
\* to its finally block; the lock is released there, later. A read that the
\* vanished device has already failed still rejects, after running = false.
StopCalled(l) ==
    IF l.stop = "live"
    THEN [l EXCEPT !.running = FALSE,
                   !.pc = IF l.pc = "reading" /\ ~l.gone THEN "cleanup" ELSE l.pc]
    ELSE l

\* _stop_json_read_loop: calls the stop function and forgets it; returns at once.
StopJsonReadLoop(l) ==
    IF l.stop # "None" THEN [StopCalled(l) EXCEPT !.stop = "None"] ELSE l

\* startReadLoop: 'Port not available' when the port has no readable
\* stream; otherwise the loop takes a fresh reader, and getReader() throws
\* while the stream is locked. The loop reports both through onError.
StartReadLoop(l) ==
    IF l.gone THEN [OnError(l, "vanished") EXCEPT !.stop = "dead"]
    ELSE IF l.lock = "free"
    THEN [l EXCEPT !.lock = "loop", !.pc = "reading", !.running = TRUE, !.stop = "live"]
    ELSE [OnError(l, "locked") EXCEPT !.stop = "dead"]

\* _start_json_read_loop: stops a loop it still knows, then starts one.
StartJsonReadLoop(l) == StartReadLoop(IF l.stop # "None" THEN StopCalled(l) ELSE l)

LoopState ==
    [lock |-> readerLock, pc |-> loopPc, running |-> running,
     stop |-> read_loop_stop, lost |-> connection_lost,
     events |-> disconnected_events, causes |-> on_error_causes,
     gone |-> device_gone]

SetLoopState(l) ==
    /\ readerLock' = l.lock
    /\ loopPc' = l.pc
    /\ running' = l.running
    /\ read_loop_stop' = l.stop
    /\ connection_lost' = l.lost
    /\ disconnected_events' = l.events
    /\ on_error_causes' = l.causes

loopVars == <<readerLock, loopPc, running, read_loop_stop, connection_lost,
              disconnected_events, on_error_causes>>
opVars == <<opPc, started_busy, wrote, first_read_lock, op_error, in_flight_at_vanish>>
portVars == <<connected, device_gone, port_closed>>

\* WebSerial.connect: adapter.connect(), then the JSON read loop.
Connect ==
    /\ ~connected
    /\ ~port_closed
    /\ \E success \in BOOLEAN :
          /\ connected' = success
          /\ IF success THEN SetLoopState(StartJsonReadLoop(LoopState))
             ELSE UNCHANGED loopVars
    /\ UNCHANGED <<messages, opVars, device_gone, port_closed>>
    /\ UNCHANGED notSerial

\* An operation is called. Neither checks whether another one is in
\* progress. enter_repl_mode stops the read loop and sleeps 0.2 s;
\* get_board_info sends Ctrl-D and sleeps 0.5 s.
\* Writing to a port whose device
\* has vanished throws ('Not connected to serial port').
BeginOperation(o) ==
    /\ connected
    /\ opPc[o] = "idle"
    /\ started_busy' = [started_busy EXCEPT ![o] = \E p \in Ops \ {o} : InProgress(p)]
    /\ first_read_lock' = [first_read_lock EXCEPT ![o] = "none"]
    /\ in_flight_at_vanish' = [in_flight_at_vanish EXCEPT ![o] = FALSE]
    /\ IF o = "get_board_info" /\ device_gone
       THEN /\ opPc' = [opPc EXCEPT ![o] = "failed"]
            /\ op_error' = [op_error EXCEPT ![o] = "Error"]
            /\ wrote' = [wrote EXCEPT ![o] = FALSE]
       ELSE /\ opPc' = [opPc EXCEPT ![o] = "sleeping"]
            /\ op_error' = [op_error EXCEPT ![o] = "none"]
            /\ wrote' = [wrote EXCEPT ![o] = (o = "get_board_info")]
    /\ IF o = "enter_repl_mode" THEN SetLoopState(StopJsonReadLoop(LoopState))
       ELSE UNCHANGED loopVars
    /\ UNCHANGED <<portVars, messages>>
    /\ UNCHANGED notSerial

\* enter_repl_mode after its sleep: Ctrl-C three times.
SendInterrupts ==
    /\ opPc["enter_repl_mode"] = "sleeping"
    /\ IF device_gone
       THEN /\ opPc' = [opPc EXCEPT !["enter_repl_mode"] = "failed"]
            /\ op_error' = [op_error EXCEPT !["enter_repl_mode"] = "Error"]
            /\ UNCHANGED wrote
       ELSE /\ opPc' = [opPc EXCEPT !["enter_repl_mode"] = "interrupted"]
            /\ wrote' = [wrote EXCEPT !["enter_repl_mode"] = TRUE]
            /\ UNCHANGED op_error
    /\ UNCHANGED <<portVars, loopVars, messages, started_busy, first_read_lock,
                   in_flight_at_vanish>>
    /\ UNCHANGED notSerial

ReadyToRead(o) ==
    opPc[o] = (IF o = "enter_repl_mode" THEN "interrupted" ELSE "sleeping")

\* The operation's first read_raw: SerialAdapter.read takes the reader,
\* which throws while the stream is locked; the operation leaves by that error.
FirstRead(o) ==
    /\ ReadyToRead(o)
    /\ first_read_lock' = [first_read_lock EXCEPT ![o] = readerLock]
    /\ IF device_gone
       THEN /\ opPc' = [opPc EXCEPT ![o] = "failed"]
            /\ op_error' = [op_error EXCEPT ![o] = "Error"]
            /\ UNCHANGED readerLock
       ELSE IF readerLock = "free"
       THEN /\ readerLock' = "op"
            /\ opPc' = [opPc EXCEPT ![o] = "reading"]
            /\ UNCHANGED op_error
       ELSE /\ opPc' = [opPc EXCEPT ![o] = "failed"]
            /\ op_error' = [op_error EXCEPT ![o] = "locked"]
            /\ UNCHANGED readerLock
    /\ UNCHANGED <<portVars, loopPc, running, read_loop_stop, connection_lost,
                   disconnected_events, on_error_causes, messages, started_busy,
                   wrote, in_flight_at_vanish>>
    /\ UNCHANGED notSerial

\* SerialAdapter.read returns: releaseReader in its finally block. A read
\* that the vanished device has failed is rethrown as the error it is.
ReadReturns(o) ==
    /\ opPc[o] = "reading"
    /\ readerLock' = "free"
    /\ IF device_gone
       THEN /\ opPc' = [opPc EXCEPT ![o] = "failed"]
            /\ op_error' = [op_error EXCEPT ![o] = "Error"]
       ELSE /\ opPc' = [opPc EXCEPT ![o] = "done"]
            /\ UNCHANGED op_error
    /\ UNCHANGED <<portVars, loopPc, running, read_loop_stop, connection_lost,
                   disconnected_events, on_error_causes, messages, started_busy,
                   wrote, first_read_lock, in_flight_at_vanish>>
    /\ UNCHANGED notSerial

\* The operation is over; after REPL work the caller may go back to JSON
\* mode by starting the read loop again.
OperationEnds(o) ==
    /\ opPc[o] \in {"done", "failed"}
    /\ opPc' = [opPc EXCEPT ![o] = "idle"]
    /\ \E restart \in BOOLEAN :
          IF restart /\ o = "enter_repl_mode" /\ disconnected_events < MaxDisconnectEvents
          THEN SetLoopState(StartJsonReadLoop(LoopState))
          ELSE UNCHANGED loopVars
    /\ UNCHANGED <<portVars, messages, started_busy, wrote, first_read_lock, op_error,
                   in_flight_at_vanish>>
    /\ UNCHANGED notSerial

\* The loop's read resolves with data: onData(text).
LoopReadsData ==
    /\ loopPc = "reading"
    /\ running
    /\ ~device_gone
    /\ messages < MaxMessages
    /\ messages' = messages + 1
    /\ UNCHANGED <<portVars, loopVars, opVars>>
    /\ UNCHANGED notSerial

\* The loop's read rejects: onError if the loop was not stopped, then finally.
LoopReadFails ==
    /\ loopPc = "reading"
    /\ IF OnErrorFires(running)
       THEN /\ connection_lost' = TRUE
            /\ disconnected_events' = disconnected_events + 1
            /\ on_error_causes' =
                   on_error_causes \cup {IF ~running THEN "stopped"
                                         ELSE IF device_gone THEN "vanished"
                                         ELSE "read_error"}
       ELSE UNCHANGED <<connection_lost, disconnected_events, on_error_causes>>
    /\ loopPc' = "cleanup"
    /\ UNCHANGED <<portVars, readerLock, running, read_loop_stop, messages, opVars>>
    /\ UNCHANGED notSerial

\* The loop's finally block completes: cancel() settled, releaseLock().
LoopCleanupDone ==
    /\ loopPc = "cleanup"
    /\ readerLock' = "free"
    /\ loopPc' = "none"
    /\ UNCHANGED <<portVars, running, read_loop_stop, connection_lost,
                   disconnected_events, on_error_causes, messages, opVars>>
    /\ UNCHANGED notSerial

\* The device vanishes: the cable is pulled or the hub resets. Reads that
\* are pending fail, and so does everything sent or read afterwards.
DeviceVanishes ==
    /\ connected
    /\ ~device_gone
    /\ device_gone' = TRUE
    /\ in_flight_at_vanish' = [o \in Ops |-> InProgress(o)]
    /\ UNCHANGED <<connected, port_closed, loopVars, messages, opPc, started_busy,
                   wrote, first_read_lock, op_error>>
    /\ UNCHANGED notSerial

\* WebSerial.disconnect: _stop_json_read_loop, then adapter.disconnect.
Disconnect ==
    /\ connected
    /\ \A o \in Ops : ~InProgress(o)
    /\ SetLoopState(StopJsonReadLoop(LoopState))
    /\ connected' = FALSE
    /\ port_closed' = TRUE
    /\ UNCHANGED <<device_gone, messages, opVars>>
    /\ UNCHANGED notSerial

OperationStep ==
    \E o \in Ops : BeginOperation(o) \/ FirstRead(o) \/ ReadReturns(o) \/ OperationEnds(o)

SerialNext ==
    Connect \/ OperationStep \/ SendInterrupts \/ LoopReadsData \/ LoopReadFails
        \/ LoopCleanupDone \/ DeviceVanishes \/ Disconnect

-----------------------------------------------------------------------------
(* Claims about the read loop and the exclusive operations                 *)

\* C2: the read loop and an exclusive operation never use the transport's
\* reader at the same time: when an operation issues its first read the
\* loop has released its lock, and the loop does not read while an
\* operation is in progress.
C2_LoopReleasedBeforeFirstRead ==
    /\ \A o \in Ops : first_read_lock[o] # "loop"
    /\ (loopPc = "reading" /\ running) => \A o \in Ops : ~InProgress(o)

\* C3: an operation attempted while another one is in progress is rejected
\* at once with OperationBusyError: it does not start and writes nothing.
C3_SecondOperationRejected ==
    \A o \in Ops :
        started_busy[o] =>
            /\ ~InProgress(o)
            /\ ~wrote[o]
            /\ op_error[o] = "OperationBusyError"

Settled == loopPc = "none" /\ \A o \in Ops : ~InProgress(o)

\* C18: when the device vanishes exactly one disconnected event is emitted,
\* and an operation that was in flight at that moment ends with the error
\* Disconnected (it neither hangs nor ends as after an idle link).
C18_OneEventAndOperationFails ==
    (device_gone /\ on_error_causes \subseteq {"vanished"}) =>
        /\ disconnected_events <= 1
        /\ (Settled /\ ~port_closed) => disconnected_events = 1
        /\ \A o \in Ops :
               (in_flight_at_vanish[o] /\ opPc[o] \in {"idle", "done", "failed"}) =>
                   op_error[o] = "Disconnected"

-----------------------------------------------------------------------------
(* Claims about the upload of the files                                    *)

\* C14: uploadMultipleFiles returns one result per file of the manifest, in
\* manifest order, and a file that fails does not stop the upload: every
\* file is attempted and has its own success or error entry.
C14_OneResultPerFileInOrder ==
    upload_attempted # <<>> =>
        /\ upload_attempted = hub_files
        /\ Len(upload_results) = Len(hub_files)
        /\ \A i \in 1..Len(hub_files) :
               /\ upload_results[i].path = hub_files[i]
               /\ upload_results[i].status \in {"success", "error"}

\* The first file failed, the second was still uploaded.
C14_Witness ==
    /\ Len(upload_results) = 2
    /\ upload_results[1] = [path |-> "main.py", status |-> "error"]
    /\ upload_results[2] = [path |-> "lib/hub.py", status |-> "success"]

\* C15: a file is reported as uploaded only when the sentinel printed by the
\* remote write ('OK') was read and the response holds no error marker.
C15_SuccessOnlyWithSentinel ==
    \A i \in 1..Len(upload_results) :
        upload_results[i].status = "success" =>
            /\ Contains(upload_responses[i], OK)
            /\ ~Contains(upload_responses[i], TRACEBACK)

-----------------------------------------------------------------------------
(* uploadFile / upload_file: the file content is escaped, placed between   *)
(* triple quotes in the code sent to the device, and the device evaluates  *)
(* that literal (serialUploader.js, unnamed/part_001)                      *)
-----------------------------------------------------------------------------

MaxContentLen == 3

BACKSLASH == "\\"
QUOTE == "'"
TRIPLE_QUOTE == <<QUOTE, QUOTE, QUOTE>>

\* Characters of a file: the escape character, the quote and a plain letter.
ContentChars == {BACKSLASH, QUOTE, "z"}

Contents == UNION {[1..n -> ContentChars] : n \in 0..MaxContentLen}

notEsc == <<scanVars, framerVars, replVars, serialVars, linkVars, infoVars, waitVars, adVars, usVars, opsVars, noiseVars, jsonVars, readVars, finVars, urVars, rfVars>>

EscInit0 ==
    /\ esc_pc = "idle"
    /\ esc_by = "none"
    /\ esc_content = <<>>
    /\ esc_text = <<>>
    /\ esc_written = [ok |-> FALSE, value |-> <<>>]

\* String.replace with a global pattern / str.replace: every occurrence,
\* left to right, without overlap.
RECURSIVE ReplaceAll(_, _, _, _)
ReplaceAll(text, pattern, with, i) ==
    IF i > Len(text) THEN <<>>
    ELSE IF StartsAt(text, pattern, i)
         THEN with \o ReplaceAll(text, pattern, with, i + Len(pattern))
         ELSE <<text[i]>> \o ReplaceAll(text, pattern, with, i + 1)

\* uploadFile: content.replace(/\\/g, '\\\\').replace(/'''/g, "'''")
escapedContent(content) ==
    ReplaceAll(ReplaceAll(content, <<BACKSLASH>>, <<BACKSLASH, BACKSLASH>>, 1),
               TRIPLE_QUOTE, TRIPLE_QUOTE, 1)

\* upload_file: content.replace('\\', '\\\\').replace("'''", "\\'\\'\\'")
content_escaped(content) ==
    ReplaceAll(ReplaceAll(content, <<BACKSLASH>>, <<BACKSLASH, BACKSLASH>>, 1),
               TRIPLE_QUOTE,
               <<BACKSLASH, QUOTE, BACKSLASH, QUOTE, BACKSLASH, QUOTE>>, 1)

SyntaxError == [ok |-> FALSE, value |-> <<>>]

\* The device reads f.write('''<text>'''): a backslash takes the next
\* character with it (\\ is a backslash, \' a quote, any other pair stays as
\* it is), the first three quotes in a row close the literal, and what is
\* left after them must be the closing parenthesis.
RECURSIVE EvalLiteral(_, _, _)
EvalLiteral(source, i, value) ==
    IF i > Len(source) THEN SyntaxError
    ELSE IF source[i] = BACKSLASH
         THEN IF i + 1 > Len(source) THEN SyntaxError
              ELSE EvalLiteral(source, i + 2,
                               value \o (IF source[i + 1] \in {BACKSLASH, QUOTE}
                                         THEN <<source[i + 1]>>
                                         ELSE <<BACKSLASH, source[i + 1]>>))
         ELSE IF StartsAt(source, TRIPLE_QUOTE, i)
              THEN IF i + 2 = Len(source) THEN [ok |-> TRUE, value |-> value]
                   ELSE SyntaxError
              ELSE EvalLiteral(source, i + 1, value \o <<source[i]>>)

\* uploadFile builds uploadCode for some content.
UploadFileBuildsCode ==
    /\ esc_pc = "idle"
    /\ \E content \in Contents :
          /\ esc_content' = content
          /\ esc_text' = escapedContent(content)
    /\ esc_pc' = "escaped"
    /\ esc_by' = "uploadFile"
    /\ UNCHANGED esc_written
    /\ UNCHANGED notEsc

\* upload_file builds upload_code for some content.
PyUploadFileBuildsCode ==
    /\ esc_pc = "idle"
    /\ \E content \in Contents :
          /\ esc_content' = content
          /\ esc_text' = content_escaped(content)
    /\ esc_pc' = "escaped"
    /\ esc_by' = "upload_file"
    /\ UNCHANGED esc_written
    /\ UNCHANGED notEsc

\* CTRL-D: the device runs the code.
DeviceRunsUploadCode ==
    /\ esc_pc = "escaped"
    /\ esc_written' = EvalLiteral(esc_text \o TRIPLE_QUOTE, 1, <<>>)
    /\ esc_pc' = "written"
    /\ UNCHANGED <<esc_by, esc_content, esc_text>>
    /\ UNCHANGED notEsc

EscNext == UploadFileBuildsCode \/ PyUploadFileBuildsCode \/ DeviceRunsUploadCode

\* C16: escaping a content and evaluating the escaped literal on the device
\* gives the content back, for every content: what the device writes to the
\* file is what uploadFile was given.
C16_EscapeRoundTrip ==
    esc_pc = "written" => esc_written = [ok |-> TRUE, value |-> esc_content]

-----------------------------------------------------------------------------
(* WebSerial.get_board_info: soft reset and parse the banner               *)
(* (unnamed/part_001, webapp/root-cause-analysis.md)                       *)
-----------------------------------------------------------------------------

\* Calls of get_board_info in a row that are looked at.
MaxIdentityQueries == 2

\* for i in range(10)
info_read_attempts == 10

BoardModes == {"normal", "raw", "running"}
BoardVersions == {"v1.22.0", "v1.23.0"}

notInfo == <<scanVars, framerVars, replVars, serialVars, linkVars, escVars, waitVars, adVars, usVars, opsVars, noiseVars, jsonVars, readVars, finVars, urVars, rfVars>>

\* A line is a sequence of words.
SoftRebootLine == <<"MPY:", "soft", "reboot">>
VersionLine(version) == <<"MicroPython", version, "on", "ESP32">>
PromptLine == <<">>>">>
OkLine == <<"OK">>
RawReplLine == <<"raw", "REPL;", "CTRL-B", "to", "exit">>
RawPromptLine == <<">">>

InfoInit0 ==
    /\ board_mode = "normal"
    /\ board_version = "v1.22.0"
    /\ board_pending = <<>>
    /\ info_pc = "idle"
    /\ info_reads = 0
    /\ info = <<>>
    /\ info_results = <<>>

\* What the board prints when it receives Ctrl-D: the normal prompt soft
\* resets and prints its banner; the raw REPL executes the empty command
\* ("OK") and resets into the raw REPL; a running program does not answer.
CtrlDOutput(mode, version) ==
    CASE mode = "normal" -> <<SoftRebootLine, VersionLine(version), PromptLine>>
      [] mode = "raw" -> <<OkLine, SoftRebootLine, RawReplLine, RawPromptLine>>
      [] OTHER -> <<>>

\* 'MicroPython' in line
HasMicroPython(line) == \E k \in 1..Len(line) : line[k] = "MicroPython"

\* 'MicroPython' in info
InfoHasMicroPython(lines) == \E k \in 1..Len(lines) : HasMicroPython(lines[k])

\* for line in lines: if 'MicroPython' in line: return line.strip()
FirstVersionLine(lines) ==
    lines[CHOOSE k \in 1..Len(lines) :
              /\ HasMicroPython(lines[k])
              /\ \A j \in 1..(k - 1) : ~HasMicroPython(lines[j])]

\* A reset of the board, or an earlier operation that left the board in
\* some mode: the calls that follow start a new row.
BoardEntersMode ==
    /\ info_pc = "idle"
    /\ \E mode \in BoardModes : board_mode' = mode
    /\ \E version \in BoardVersions : board_version' = version
    /\ info_results' = <<>>
    /\ board_pending' = <<>>
    /\ UNCHANGED <<info_pc, info_reads, info>>
    /\ UNCHANGED notInfo

\* get_board_info: send_raw('\x04'), sleep(0.5).
GetBoardInfoSendsCtrlD ==
    /\ info_pc = "idle"
    /\ Len(info_results) < MaxIdentityQueries
    /\ board_pending' = board_pending \o CtrlDOutput(board_mode, board_version)
    /\ info' = <<>>
    /\ info_reads' = 0
    /\ info_pc' = "reading"
    /\ UNCHANGED <<board_mode, board_version, info_results>>
    /\ UNCHANGED notInfo

\* One pass of the read loop: read_raw(500) returns the lines that have
\* arrived (at least one when the board has printed something), or ''.
GetBoardInfoReads ==
    /\ info_pc = "reading"
    /\ info_reads < info_read_attempts
    /\ ~InfoHasMicroPython(info)
    /\ \E n \in (IF board_pending = <<>> THEN {0} ELSE 1..Len(board_pending)) :
          /\ info' = info \o SubSeq(board_pending, 1, n)
          /\ board_pending' = SubSeq(board_pending, n + 1, Len(board_pending))
    /\ info_reads' = info_reads + 1
    /\ UNCHANGED <<board_mode, board_version, info_pc, info_results>>
    /\ UNCHANGED notInfo

\* After the loop: the version line is returned, or "Unexpected board
\* response" / "Timeout waiting for board info" is raised.
GetBoardInfoEnds ==
    /\ info_pc = "reading"
    /\ InfoHasMicroPython(info) \/ info_reads = info_read_attempts
    /\ info_results' =
           Append(info_results,
                  IF InfoHasMicroPython(info)
                  THEN [returned |-> TRUE, line |-> FirstVersionLine(info)]
                  ELSE [returned |-> FALSE, line |-> <<>>])
    /\ info_pc' = "idle"
    /\ UNCHANGED <<board_mode, board_version, board_pending, info_reads, info>>
    /\ UNCHANGED notInfo

InfoNext ==
    BoardEntersMode \/ GetBoardInfoSendsCtrlD \/ GetBoardInfoReads \/ GetBoardInfoEnds

\* C17: two calls of get_board_info in a row, with no reset between them,
\* both return the identity of the board, and the same one, whatever mode
\* the board was in before the first call.
C17_SameIdentityTwice ==
    Len(info_results) = 2 =>
        /\ info_results[1].returned
        /\ info_results[2].returned
        /\ info_results[1].line = info_results[2].line

-----------------------------------------------------------------------------
(* Protocol waits and their timeouts: SerialUploader.waitForPrompt,        *)
(* SerialAdapter.readUntil, WebSerial.execute_repl_command                 *)
-----------------------------------------------------------------------------

\* Resolution of the clock: a read that gets data or an error returns after
\* this many ms.
TimeStep == 250

\* The clock is not followed beyond this value.
MaxWaitClock == 7000

wait_timeout_ms == 5000
read_timeout_ms == 500
execute_sleep_ms == 200
execute_read_ms == 1000
execute_read_attempts == 5

WaitKinds == {"waitForPrompt", "readUntil", "execute_repl_command"}

\* What a read can bring: nothing before its own timeout, bytes without the
\* marker, bytes with the marker, or an error of the stream.
ReadOutcomes == {"nothing", "noise", "marker", "error"}

notWait == <<scanVars, framerVars, replVars, serialVars, linkVars, escVars, infoVars, adVars, usVars, opsVars, noiseVars, jsonVars, readVars, finVars, urVars, rfVars>>

WaitInit0 ==
    /\ wt_pc = "idle"
    /\ wt_kind = "none"
    /\ wt_elapsed = 0
    /\ wt_reads = 0
    /\ wt_result = "none"

\* Timeout of one read inside the wait.
ReadTimeout(kind) ==
    IF kind = "execute_repl_command" THEN execute_read_ms ELSE read_timeout_ms

\* The loop condition: while (Date.now() - startTime < timeout) for the two
\* JavaScript waits; for i in range(5) with the timeout check at the top of
\* the body for execute_repl_command.
WaitLoopGoesOnMutant(kind, elapsed, reads) == TRUE
WaitLoopGoesOn(kind, elapsed, reads) ==
    IF kind = "execute_repl_command"
    THEN reads < execute_read_attempts /\ ~(elapsed > wait_timeout_ms)
    ELSE elapsed < wait_timeout_ms

\* A wait is called.
WaitBegins ==
    /\ wt_pc = "idle"
    /\ \E kind \in WaitKinds :
          /\ wt_kind' = kind
          /\ wt_elapsed' = IF kind = "execute_repl_command" THEN execute_sleep_ms ELSE 0
    /\ wt_reads' = 0
    /\ wt_result' = "none"
    /\ wt_pc' = "waiting"
    /\ UNCHANGED notWait

\* How the wait goes on after a read: "" while it keeps waiting.
AfterRead(kind, outcome) ==
    CASE kind = "waitForPrompt" -> IF outcome = "marker" THEN "true" ELSE ""
      [] kind = "readUntil" ->
            IF outcome = "marker" THEN "found"
            ELSE IF outcome = "error" THEN "not_found" ELSE ""
      [] OTHER ->
            IF outcome = "error" THEN "raised"
            ELSE IF outcome = "nothing" THEN "returned" ELSE ""

\* One pass of the loop: a read, which returns at the latest at its timeout.
WaitReads ==
    /\ wt_pc = "waiting"
    /\ WaitLoopGoesOn(wt_kind, wt_elapsed, wt_reads)
    /\ wt_elapsed < MaxWaitClock
    /\ \E outcome \in ReadOutcomes :
          /\ wt_elapsed' = wt_elapsed +
                 (IF outcome = "nothing" THEN ReadTimeout(wt_kind) ELSE TimeStep)
          /\ wt_result' = AfterRead(wt_kind, outcome)
          /\ wt_pc' = IF AfterRead(wt_kind, outcome) = "" THEN "waiting" ELSE "ended"
    /\ wt_reads' = wt_reads + 1
    /\ UNCHANGED wt_kind
    /\ UNCHANGED notWait

\* The loop is left without the marker: waitForPrompt returns false,
\* readUntil {found: false}; execute_repl_command raises 'REPL command
\* timeout' or returns what its reads collected.
WaitLoopOver ==
    /\ wt_pc = "waiting"
    /\ ~WaitLoopGoesOn(wt_kind, wt_elapsed, wt_reads)
    /\ wt_result' =
           (CASE wt_kind = "waitForPrompt" -> "false"
              [] wt_kind = "readUntil" -> "not_found"
              [] OTHER -> IF wt_elapsed > wait_timeout_ms /\ wt_reads < execute_read_attempts
                          THEN "raised" ELSE "returned")
    /\ wt_pc' = "ended"
    /\ UNCHANGED <<wt_kind, wt_elapsed, wt_reads>>
    /\ UNCHANGED notWait

\* The caller goes on; another wait can follow.
WaitReturns ==
    /\ wt_pc = "ended"
    /\ wt_pc' = "idle"
    /\ UNCHANGED <<wt_kind, wt_elapsed, wt_reads, wt_result>>
    /\ UNCHANGED notWait

WaitNext == WaitBegins \/ WaitReads \/ WaitLoopOver \/ WaitReturns

\* The latest moment a wait can end: its last read starts before the
\* timeout and takes at most its own timeout.
WaitDeadline(kind) ==
    IF kind = "execute_repl_command"
    THEN execute_sleep_ms + execute_read_attempts * execute_read_ms
    ELSE wait_timeout_ms + read_timeout_ms

-----------------------------------------------------------------------------
(* SerialAdapter: connect, read, disconnect, and the locks of the port's   *)
(* streams (unnamed/part_004); SerialUploader.read and releaseStreams      *)
(* (serialUploader.js); WebSerial.disconnect (unnamed/part_001)            *)

notAdapter == <<scanVars, framerVars, replVars, serialVars, linkVars, escVars, infoVars,
                waitVars, opsVars, noiseVars, jsonVars, readVars, finVars, urVars, rfVars>>

\* What requestPort() or port.open() can end with: the port, or an error
\* whose text holds one of the words connect() looks for, or none of them.
ChooserOutcomes == {"port", "cancelled", "aborted", "other"}
OpenOutcomes == {"opened", "in use", "busy", "other"}

NoCall == [name |-> "none", cause |-> "none", returned |-> "none", raised |-> "none",
           level |-> "none"]

AdapterInit0 ==
    /\ ad_port = "null"
    /\ ad_reader = FALSE
    /\ ad_lock = "free"
    /\ ad_pc = "idle"
    /\ ad_loop = "none"
    /\ ad_errored = FALSE
    /\ ad_call = NoCall
    /\ ad_tick = FALSE
    /\ us_port = "null"
    /\ us_reader = FALSE
    /\ us_writer = FALSE
    /\ us_read_pending = FALSE

Call(name, cause, returned, raised, level) ==
    [name |-> name, cause |-> cause, returned |-> returned, raised |-> raised,
     level |-> level]

\* isConnected(): this.port !== null && this.port.readable !== null
isConnected == ad_port = "open"

\* The catch block of connect(): what the caller gets and how it is logged.
ConnectCatch(errorMsg) ==
    IF errorMsg \in {"cancelled", "aborted"}
    THEN [returned |-> "false", level |-> "log"]
    ELSE IF errorMsg \in {"in use", "busy"}
    THEN [returned |-> "false", level |-> "error"]
    ELSE [returned |-> "false", level |-> "error"]

\* SerialAdapter.connect(); WebSerial.connect returns its result unchanged.
AdConnect ==
    /\ ad_port # "open"
    /\ us_port = "null"
    /\ ad_pc = "idle"
    /\ \E api \in BOOLEAN, chosen \in ChooserOutcomes, opened \in OpenOutcomes :
          IF ~api
          THEN /\ ad_call' = Call("connect", "no api", "false", "none", "error")
               /\ UNCHANGED <<ad_port, ad_errored>>
          ELSE IF chosen # "port"
          THEN /\ \E c \in {ConnectCatch(chosen)} :
                     ad_call' = Call("connect", chosen, c.returned, "none", c.level)
               /\ UNCHANGED <<ad_port, ad_errored>>
          ELSE IF opened # "opened"
          THEN /\ \E c \in {ConnectCatch(opened)} :
                     ad_call' = Call("connect", opened, c.returned, "none", c.level)
               /\ ad_port' = "selected"
               /\ UNCHANGED ad_errored
          ELSE /\ ad_call' = Call("connect", "none", "true", "none", "log")
               /\ ad_port' = "open"
               /\ ad_errored' = FALSE
    /\ ad_tick' = ~ad_tick
    /\ UNCHANGED <<ad_reader, ad_lock, ad_pc, ad_loop, usVars>>
    /\ UNCHANGED notAdapter

\* startReadLoop: the loop takes its own reader (currentReader, not
\* this.reader) or throws, and then onError runs.
AdStartReadLoop ==
    /\ ad_loop = "none"
    /\ ad_port # "null"
    /\ IF ad_port = "open" /\ ad_lock = "free" /\ ~ad_errored
       THEN /\ ad_lock' = "loop"
            /\ ad_loop' = "reading"
            /\ ad_call' = Call("startReadLoop", "none", "stopFn", "none", "none")
       ELSE /\ ad_call' = Call("startReadLoop", "getReader", "stopFn", "none", "onError")
            /\ UNCHANGED <<ad_lock, ad_loop>>
    /\ ad_tick' = ~ad_tick
    /\ UNCHANGED <<ad_port, ad_reader, ad_pc, ad_errored, usVars>>
    /\ UNCHANGED notAdapter

\* The stop function: running = false; currentReader.cancel(). The loop
\* leaves its while and releases the lock in a later turn of the event loop.
AdStopReadLoop ==
    /\ ad_loop = "reading"
    /\ ad_loop' = "cleanup"
    /\ UNCHANGED <<ad_port, ad_reader, ad_lock, ad_pc, ad_errored, ad_call, ad_tick, usVars>>
    /\ UNCHANGED notAdapter

\* The finally block of the loop: currentReader.releaseLock() unless
\* currentReader.cancel() threw.
AdLoopCleanup ==
    /\ ad_loop = "cleanup"
    /\ ad_loop' = "none"
    /\ ad_lock' = IF ad_errored THEN ad_lock ELSE "free"
    /\ UNCHANGED <<ad_port, ad_reader, ad_pc, ad_errored, ad_call, ad_tick, usVars>>
    /\ UNCHANGED notAdapter

\* read(timeoutMs) up to its await: isConnected(), getReader(), and the race
\* of reader.read() with the timer.
AdReadBegins ==
    /\ ad_pc = "idle"
    /\ ad_port # "null"
    /\ IF ~isConnected
       THEN /\ ad_call' = Call("read", "not connected", "none", "Error", "none")
            /\ ad_tick' = ~ad_tick
            /\ UNCHANGED <<ad_reader, ad_lock, ad_pc>>
       ELSE IF ad_lock # "free"
       THEN \* getReader() on a locked stream throws; this.reader is not set
            /\ ad_call' = Call("read", "locked", "none", "TypeError", "none")
            /\ ad_tick' = ~ad_tick
            /\ UNCHANGED <<ad_reader, ad_lock, ad_pc>>
       ELSE /\ ad_reader' = TRUE
            /\ ad_lock' = "adapter"
            /\ ad_pc' = "reading"
            /\ UNCHANGED <<ad_call, ad_tick>>
    /\ UNCHANGED <<ad_port, ad_loop, ad_errored, usVars>>
    /\ UNCHANGED notAdapter

ReadCatchMutant(outcome) ==
    IF outcome = "timeout"
    THEN [returned |-> "none", raised |-> "Error"]
    ELSE IF outcome = "done"
    THEN [returned |-> "''", raised |-> "none"]
    ELSE IF outcome = "data"
    THEN [returned |-> "data", raised |-> "none"]
    ELSE [returned |-> "none", raised |-> "Error"]

\* What read() gives its caller for each way the race can end: the timer
\* rejects with 'timeout', the stream is done, a chunk arrives, the read
\* rejects with another error.
ReadCatch(outcome) ==
    IF outcome = "timeout"
    THEN [returned |-> "''", raised |-> "none"]
    ELSE IF outcome = "done"
    THEN [returned |-> "''", raised |-> "none"]
    ELSE IF outcome = "data"
    THEN [returned |-> "data", raised |-> "none"]
    ELSE [returned |-> "none", raised |-> "Error"]

\* releaseReader(): cancel and releaseLock inside a try whose catch ignores
\* the error; this.reader = null in any case. cancel() rejects on a stream
\* that has errored, and then releaseLock() is skipped.
ReleasedLock(reader, lock, errored) ==
    IF reader /\ lock = "adapter" /\ ~errored THEN "free" ELSE lock

\* read(timeoutMs) from the end of the race: the try, the catch and the
\* finally with releaseReader().
AdReadEnds ==
    /\ ad_pc \in {"reading", "cancelled"}
    /\ \E outcome \in (IF ad_pc = "cancelled" THEN {"done"}
                       ELSE IF ad_errored THEN {"error"}
                       ELSE {"timeout", "data", "done"}) :
          \E c \in {ReadCatch(outcome)} :
             ad_call' = Call("read", outcome, c.returned, c.raised, "none")
    /\ ad_lock' = ReleasedLock(ad_reader, ad_lock, ad_errored)
    /\ ad_reader' = FALSE
    /\ ad_pc' = "idle"
    /\ ad_tick' = ~ad_tick
    /\ UNCHANGED <<ad_port, ad_loop, ad_errored, usVars>>
    /\ UNCHANGED notAdapter

\* port.close() rejects when the port is not open and when its readable
\* stream is still locked.
CloseRejects(port, lock) == port # "open" \/ lock # "free"

\* SerialAdapter.disconnect(), with the lock of port.readable as
\* releaseReader() and a stopped loop left it. It returns false when
\* port.close() rejected.
disconnect(lock) ==
    /\ IF ad_port = "null"
       THEN /\ ad_call' = Call("disconnect", "none", "true", "none", "none")
            /\ UNCHANGED ad_port
       ELSE IF CloseRejects(ad_port, lock)
       THEN /\ ad_call' = Call("disconnect", "close rejected", "false", "none", "error")
            /\ UNCHANGED ad_port
       ELSE /\ ad_call' = Call("disconnect", "none", "true", "none", "log")
            /\ ad_port' = "null"
    /\ ad_lock' = lock
    /\ ad_reader' = FALSE
    /\ ad_pc' = IF ad_pc = "reading" THEN "cancelled" ELSE ad_pc
    /\ ad_tick' = ~ad_tick

\* WebSerial.disconnect(): _stop_json_read_loop() without waiting for the
\* loop to end, then adapter.disconnect(), whose result it does not look
\* at. The stopped loop may or may not have released its lock when
\* port.close() runs.
AdDisconnect ==
    /\ \E loopDone \in BOOLEAN :
          /\ loopDone => ad_loop = "reading"
          /\ IF loopDone
             THEN /\ ad_loop' = "none"
                  /\ disconnect(IF ad_errored THEN ad_lock ELSE "free")
             ELSE /\ ad_loop' = IF ad_loop = "reading" THEN "cleanup" ELSE ad_loop
                  /\ disconnect(ReleasedLock(ad_reader, ad_lock, ad_errored))
    /\ UNCHANGED <<ad_errored, usVars>>
    /\ UNCHANGED notAdapter

\* The device vanishes: the streams of the open ports error, the loop's
\* pending read rejects and the loop goes to its finally block.
AdDeviceVanishes ==
    /\ ~ad_errored
    /\ ad_port = "open" \/ us_port = "open"
    /\ ad_errored' = TRUE
    /\ ad_loop' = IF ad_loop = "reading" THEN "cleanup" ELSE ad_loop
    /\ UNCHANGED <<ad_port, ad_reader, ad_lock, ad_pc, ad_call, ad_tick, usVars>>
    /\ UNCHANGED notAdapter

\* SerialUploader.acquireStreams(): open the port if needed, take the
\* reader and the writer. HubSetupModal hands the uploader its own port.
UsAcquireStreams ==
    /\ us_port # "null"
    /\ ~us_reader
    /\ ~ad_errored
    /\ us_port' = "open"
    /\ us_reader' = TRUE
    /\ us_writer' = TRUE
    /\ us_read_pending' = FALSE
    /\ ad_call' = Call("acquireStreams", "none", "none", "none", "log")
    /\ ad_tick' = ~ad_tick
    /\ UNCHANGED <<ad_port, ad_reader, ad_lock, ad_pc, ad_loop, ad_errored>>
    /\ UNCHANGED notAdapter

\* SerialUploader.read: 'Read timeout' gives '', a chunk is decoded, and
\* 'Reader closed' and every other error are thrown.
UsReadCatch(outcome) ==
    IF outcome = "timeout"
    THEN [returned |-> "''", raised |-> "none"]
    ELSE IF outcome = "data"
    THEN [returned |-> "data", raised |-> "none"]
    ELSE [returned |-> "none", raised |-> "Error"]

\* SerialUploader.read(timeout): the race of this.reader.read() with the
\* timer. After a timeout the read it started stays pending.
UsRead ==
    /\ us_reader
    /\ \E outcome \in (IF ad_errored THEN {"error"} ELSE {"timeout", "data", "done"}) :
          /\ \E c \in {UsReadCatch(outcome)} :
                ad_call' = Call("uploader.read", outcome, c.returned, c.raised, "none")
          /\ us_read_pending' = (outcome = "timeout")
    /\ ad_tick' = ~ad_tick
    /\ UNCHANGED <<ad_port, ad_reader, ad_lock, ad_pc, ad_loop, ad_errored,
                   us_port, us_reader, us_writer>>
    /\ UNCHANGED notAdapter

\* SerialUploader.releaseStreams(): one try around everything; the first
\* call that rejects (reader.cancel() on an errored stream, port.close() on
\* a port that is not open) ends it.
UsReleaseStreams ==
    /\ IF us_reader /\ ad_errored
       THEN /\ ad_call' = Call("releaseStreams", "cancel rejected", "none", "none", "error")
            /\ UNCHANGED <<us_port, us_reader, us_writer, us_read_pending>>
       ELSE /\ us_reader' = FALSE
            /\ us_writer' = FALSE
            /\ us_read_pending' = FALSE
            /\ IF us_port = "closed"
               THEN /\ ad_call' = Call("releaseStreams", "close rejected", "none", "none",
                                       "error")
                    /\ UNCHANGED us_port
               ELSE /\ ad_call' = Call("releaseStreams", "none", "none", "none", "log")
                    /\ us_port' = "null"
    /\ ad_tick' = ~ad_tick
    /\ UNCHANGED <<ad_port, ad_reader, ad_lock, ad_pc, ad_loop, ad_errored>>
    /\ UNCHANGED notAdapter

\* HubSetupModal.show(serialPort): a new SerialUploader for the port.
UsUseExistingPort ==
    /\ us_port = "null"
    /\ ad_port = "null"
    /\ us_port' = "closed"
    /\ ad_errored' = FALSE
    /\ UNCHANGED <<ad_port, ad_reader, ad_lock, ad_pc, ad_loop, ad_call, ad_tick,
                   us_reader, us_writer, us_read_pending>>
    /\ UNCHANGED notAdapter

AdapterNext ==
    \/ AdConnect \/ AdStartReadLoop \/ AdStopReadLoop \/ AdLoopCleanup
    \/ AdReadBegins \/ AdReadEnds \/ AdDisconnect
    \/ AdDeviceVanishes \/ UsAcquireStreams \/ UsRead \/ UsReleaseStreams
    \/ UsUseExistingPort

-----------------------------------------------------------------------------
(* Claims about opening, reading and closing the transport, checked under  *)
(* SpecAdapter                                                             *)

\* C21: when the user cancels the port chooser, connect raises nothing,
\* reports no error, and gives its caller an outcome that differs from the
\* outcome of a busy port and of every other failure to connect.
C21_CancelDistinguishable ==
    (ad_call.name = "connect" /\ ad_call.cause \in {"cancelled", "aborted"}) =>
        /\ ad_call.raised = "none"
        /\ ad_call.level # "error"
        /\ \A failure \in {"in use", "busy", "other"} :
              ConnectCatch(failure).returned # ad_call.returned

\* C22: a read whose timer fires before any data arrived returns the empty
\* string and raises nothing (SerialAdapter.read and SerialUploader.read).
C22_TimeoutGivesEmpty ==
    (ad_call.name \in {"read", "uploader.read"} /\ ad_call.cause = "timeout") =>
        /\ ad_call.returned = "''"
        /\ ad_call.raised = "none"

C22_Witness ==
    /\ ad_call = Call("read", "timeout", "''", "none", "none")
    /\ ad_lock = "free"

DisconnectReturns == ad_tick' # ad_tick /\ ad_call'.name = "disconnect"

ReleaseStreamsReturns == ad_tick' # ad_tick /\ ad_call'.name = "releaseStreams"

\* C23: when disconnect or releaseStreams returns, no read is in flight and
\* the reader and writer locks are released, nothing was raised, and a call
\* that follows another one changes nothing.
C23_CloseReleasesAndIsIdempotent ==
    /\ [][DisconnectReturns =>
            /\ ad_call'.raised = "none"
            /\ ad_pc' # "reading" /\ ~ad_reader' /\ ad_lock' = "free"
            /\ (ad_call.name = "disconnect" =>
                    UNCHANGED <<ad_port, ad_reader, ad_lock, ad_pc, ad_loop>>)]_vars
    /\ [][ReleaseStreamsReturns =>
            /\ ad_call'.raised = "none"
            /\ ~us_reader' /\ ~us_writer' /\ ~us_read_pending'
            /\ (ad_call.name = "releaseStreams" => UNCHANGED usVars)]_vars

\* C38: startUpload ends every path on which the streams were acquired with
\* releaseStreams, and when releaseStreams has returned the uploader holds
\* neither the reader nor the writer and the port is not open.
C38_UploadEndsReleased ==
    ad_call.name = "releaseStreams" =>
        /\ ~us_reader
        /\ ~us_writer
        /\ us_port # "open"

-----------------------------------------------------------------------------
(* The REPL operations and what they send: SerialUploader's enterRawRepl,  *)
(* executeRawCommand, exitRawRepl, resetBoard in the order startUpload     *)
(* calls them (serialUploader.js), and WebSerial's enter_repl_mode,        *)
(* enter_raw_repl_mode, execute_repl_command, exit_raw_repl_mode,          *)
(* soft_reset, which a caller may use in any order (unnamed/part_001)      *)

notOps == <<scanVars, framerVars, replVars, serialVars, linkVars, escVars, infoVars,
            waitVars, adVars, usVars, noiseVars, jsonVars, readVars, finVars, urVars, rfVars>>

CTRL_A == "CTRL-A"
CTRL_B == "CTRL-B"
CTRL_C == "CTRL-C"
CTRL_D == "CTRL-D"
CODE == "code"

\* The device state that the marker read since the last mode signal
\* stands for; the code keeps no such state of its own.
Believed(marker) ==
    IF marker = "raw REPL" THEN "RawPrompt"
    ELSE IF marker = ">>>" THEN "NormalPrompt"
    ELSE "Unknown"

NoOperation ==
    [name |-> "none", from |-> "Unknown", sent |-> <<>>, marker |-> FALSE,
     found |-> "none", outcome |-> "none", interrupted |-> FALSE, reset_from |-> "none"]

OpsInit0 ==
    /\ rp_by = "none"
    /\ rp_pc = "idle"
    /\ rp_marker = "none"
    /\ rp_interrupted = FALSE
    /\ rp_call = NoOperation

\* One finished call: the state believed before it, what it wrote, whether
\* it read the marker it waited for, what its wait returned ("none": it did
\* not wait), and how it left.
Operation(name, sent, marker, found, outcome) ==
    [name |-> name, from |-> Believed(rp_marker), sent |-> sent, marker |-> marker,
     found |-> found, outcome |-> outcome, interrupted |-> rp_interrupted,
     reset_from |-> "none"]

\* acquireStreams: reader and writer, then CTRL-C.
OpsAcquireStreams ==
    /\ rp_by = "none"
    /\ rp_by' = "js"
    /\ rp_pc' = "acquired"
    /\ rp_marker' = "none"
    /\ rp_interrupted' = TRUE
    /\ rp_call' = Operation("acquireStreams", <<CTRL_C>>, FALSE, "none", "returned")
    /\ UNCHANGED notOps

\* enterRawRepl: CTRL-C three times, CTRL-A, waitForPrompt('raw REPL');
\* it returns true whatever the wait returned.
OpsEnterRawRepl ==
    /\ rp_by = "js"
    /\ rp_pc = "acquired"
    /\ \E reads \in ReadSequences :
       \E w \in {waitForPrompt(RAW_REPL, reads)} :
          /\ rp_marker' = IF Contains(w.buffer, RAW_REPL) THEN "raw REPL" ELSE "none"
          /\ rp_call' = Operation("enterRawRepl", <<CTRL_C, CTRL_C, CTRL_C, CTRL_A>>,
                                  Contains(w.buffer, RAW_REPL),
                                  IF w.result THEN "true" ELSE "false",
                                  IF EnterRawReplReturns(w.result) THEN "returned"
                                  ELSE "raised")
    /\ rp_pc' = "entered"
    /\ rp_interrupted' = TRUE
    /\ UNCHANGED rp_by
    /\ UNCHANGED notOps

\* executeRawCommand and execute_repl_command start with the write of the
\* code: neither looks at any state before it.
ExecuteRejects(believed) == FALSE

\* What an execute call writes.
ExecuteSends(believed) ==
    IF ExecuteRejects(believed) THEN <<>> ELSE <<CODE, CTRL_D>>

\* executeRawCommand (called by ensureDirectory): the code, then CTRL-D; it
\* throws when the response holds 'Traceback'.
OpsExecuteRawCommand ==
    /\ rp_by = "js"
    /\ rp_pc \in {"entered", "uploaded"}
    /\ \E response \in {<<>>, OK, TRACEBACK} :
          rp_call' = Operation("executeRawCommand", ExecuteSends(Believed(rp_marker)),
                               FALSE, "none",
                               IF ExecuteRejects(Believed(rp_marker))
                                  \/ Contains(response, TRACEBACK)
                               THEN "raised" ELSE "returned")
    /\ rp_pc' = "uploaded"
    /\ UNCHANGED <<rp_by, rp_marker, rp_interrupted>>
    /\ UNCHANGED notOps

\* uploadFile: the same two writes; the error it throws for a response with
\* 'Traceback' is caught by its own catch block.
OpsUploadFile ==
    /\ rp_by = "js"
    /\ rp_pc \in {"entered", "uploaded"}
    /\ rp_call' = Operation("uploadFile", ExecuteSends(Believed(rp_marker)), FALSE, "none",
                            IF ExecuteRejects(Believed(rp_marker)) THEN "raised"
                            ELSE "returned")
    /\ rp_pc' = "uploaded"
    /\ UNCHANGED <<rp_by, rp_marker, rp_interrupted>>
    /\ UNCHANGED notOps

\* exitRawRepl: CTRL-B and a pause of 200 ms; it reads nothing.
OpsExitRawRepl ==
    /\ rp_by = "js"
    /\ rp_pc = "uploaded"
    /\ rp_call' = Operation("exitRawRepl", <<CTRL_B>>, FALSE, "none", "returned")
    /\ rp_marker' = "none"
    /\ rp_pc' = "exited"
    /\ UNCHANGED <<rp_by, rp_interrupted>>
    /\ UNCHANGED notOps

\* resetBoard: CTRL-B, a pause, CTRL-D; errors are caught.
OpsResetBoard ==
    /\ rp_by = "js"
    /\ rp_pc = "exited"
    /\ rp_call' = [Operation("resetBoard", <<CTRL_B, CTRL_D>>, FALSE, "none", "returned")
                     EXCEPT !.interrupted = FALSE, !.reset_from = Believed("none")]
    /\ rp_marker' = "none"
    /\ rp_interrupted' = FALSE
    /\ rp_pc' = "reset"
    /\ UNCHANGED rp_by
    /\ UNCHANGED notOps

\* releaseStreams at the end of startUpload; the next upload starts anew.
OpsReleaseStreams ==
    /\ rp_by = "js"
    /\ rp_pc = "reset"
    /\ rp_by' = "none"
    /\ rp_pc' = "idle"
    /\ UNCHANGED <<rp_marker, rp_interrupted, rp_call>>
    /\ UNCHANGED notOps

PyCallable == rp_by \in {"none", "py"}

\* send_raw raises when the adapter's write does ('Not connected to serial
\* port'): the call ends there and has changed nothing.
SendRawRaises(name) ==
    /\ rp_call' = Operation(name, <<>>, FALSE, "none", "raised")
    /\ UNCHANGED <<rp_marker, rp_interrupted>>

\* enter_repl_mode: CTRL-C three times, then the buffer is drained without
\* looking at what was read.
PyEnterReplMode ==
    /\ PyCallable
    /\ rp_by' = "py"
    /\ \/ SendRawRaises("enter_repl_mode")
       \/ /\ rp_call' = Operation("enter_repl_mode", <<CTRL_C, CTRL_C, CTRL_C>>, FALSE,
                                  "none", "returned")
          /\ rp_marker' = "none"
          /\ rp_interrupted' = TRUE
    /\ UNCHANGED rp_pc
    /\ UNCHANGED notOps

\* enter_raw_repl_mode: Ctrl-A, readUntil the banner; a warning when it was
\* not found.
PyEnterRawReplMode ==
    /\ PyCallable
    /\ rp_by' = "py"
    /\ \/ SendRawRaises("enter_raw_repl_mode")
       \/ \E reads \in ReadSequences :
          \E r \in {readUntil(RAW_REPL_MARKER, reads)} :
             /\ rp_marker' = IF r.found THEN "raw REPL" ELSE "none"
             /\ rp_call' = Operation("enter_raw_repl_mode", <<CTRL_A>>, r.found,
                                     IF r.found THEN "true" ELSE "false",
                                     IF EnterRawReplModeRaises(r.found) THEN "raised"
                                     ELSE "returned")
             /\ UNCHANGED rp_interrupted
    /\ UNCHANGED rp_pc
    /\ UNCHANGED notOps

\* execute_repl_command: the code, Ctrl-D, up to 5 reads; it raises when the
\* response holds 'Traceback' or 'Error:'.
PyExecuteReplCommand ==
    /\ PyCallable
    /\ rp_by' = "py"
    /\ \/ SendRawRaises("execute_repl_command")
       \/ /\ \E response \in {<<>>, OK, TRACEBACK} :
                rp_call' = Operation("execute_repl_command",
                                     ExecuteSends(Believed(rp_marker)), FALSE, "none",
                                     IF ExecuteRejects(Believed(rp_marker))
                                        \/ Contains(response, TRACEBACK)
                                     THEN "raised" ELSE "returned")
          /\ UNCHANGED <<rp_marker, rp_interrupted>>
    /\ UNCHANGED rp_pc
    /\ UNCHANGED notOps

\* exit_raw_repl_mode's branch for a prompt that was not found: a warning,
\* and the call returns.
ExitRawReplModeRaises(found) == FALSE

\* exit_raw_repl_mode: Ctrl-B, readUntil('>>>', 1000).
PyExitRawReplMode ==
    /\ PyCallable
    /\ rp_by' = "py"
    /\ \/ SendRawRaises("exit_raw_repl_mode")
       \/ \E reads \in ReadSequences :
          \E r \in {readUntil(PROMPT, reads)} :
             /\ rp_marker' = IF r.found THEN ">>>" ELSE "none"
             /\ rp_call' = Operation("exit_raw_repl_mode", <<CTRL_B>>, r.found,
                                     IF r.found THEN "true" ELSE "false",
                                     IF ExitRawReplModeRaises(r.found) THEN "raised"
                                     ELSE "returned")
             /\ UNCHANGED rp_interrupted
    /\ UNCHANGED rp_pc
    /\ UNCHANGED notOps

\* soft_reset: Ctrl-D and a sleep.
PySoftReset ==
    /\ PyCallable
    /\ rp_by' = "py"
    /\ \/ SendRawRaises("soft_reset")
       \/ /\ rp_call' = [Operation("soft_reset", <<CTRL_D>>, FALSE, "none", "returned")
                           EXCEPT !.reset_from = Believed(rp_marker)]
          /\ rp_marker' = "none"
          /\ rp_interrupted' = FALSE
    /\ UNCHANGED rp_pc
    /\ UNCHANGED notOps

\* WebSerial.disconnect: the next caller starts anew.
PyDisconnect ==
    /\ rp_by = "py"
    /\ rp_by' = "none"
    /\ rp_marker' = "none"
    /\ rp_interrupted' = FALSE
    /\ UNCHANGED <<rp_pc, rp_call>>
    /\ UNCHANGED notOps

OpsNext ==
    \/ OpsAcquireStreams \/ OpsEnterRawRepl \/ OpsExecuteRawCommand \/ OpsUploadFile
    \/ OpsExitRawRepl \/ OpsResetBoard \/ OpsReleaseStreams \/ PyEnterReplMode \/ PyEnterRawReplMode
    \/ PyExecuteReplCommand \/ PyExitRawReplMode \/ PySoftReset \/ PyDisconnect

Sent(signal) == \E i \in 1..Len(rp_call.sent) : rp_call.sent[i] = signal

-----------------------------------------------------------------------------
(* Claims about the REPL operations, checked under SpecReplOps             *)

\* C24: an execute call writes the code and the execute signal only when the
\* device is believed to be at the raw prompt or in paste mode; called in any
\* other state it is rejected and has written nothing.
C24_ExecuteOnlyFromRawPrompt ==
    rp_call.name \in {"executeRawCommand", "uploadFile", "execute_repl_command"} =>
        IF rp_call.from \in {"RawPrompt", "PasteMode"}
        THEN TRUE
        ELSE rp_call.outcome = "raised" /\ rp_call.sent = <<>>

\* C25: an exit call that returns has read the normal prompt after its
\* CTRL-B; one that did not read it has raised, and the device is not
\* believed to be at the normal prompt.
C25_ExitConfirmedOrFails ==
    rp_call.name \in {"exitRawRepl", "exit_raw_repl_mode"} =>
        /\ rp_call.outcome = "returned" => rp_call.marker
        /\ ~rp_call.marker =>
              /\ rp_call.outcome = "raised"
              /\ Believed(rp_marker) = "NormalPrompt" => rp_call.from = "NormalPrompt"

\* C26: a reset call sends the soft-restart signal only after an interrupt
\* and from a confirmed normal prompt, never from raw mode or an unknown
\* state.
C26_SoftResetFromNormalPromptOnly ==
    (rp_call.name \in {"resetBoard", "soft_reset"} /\ Sent(CTRL_D)) =>
        /\ rp_call.reset_from = "NormalPrompt"
        /\ rp_call.interrupted

-----------------------------------------------------------------------------
(* Frame reassembly with unframed text on the link: on_ble_data is handed  *)
(* every notification, framed or not (BLE_PROTOCOL_V1.md)                  *)

\* Bound on the unframed texts the hub sends.
MaxDebugTexts == 1

notFramerNoise == <<scanVars, replVars, serialVars, linkVars, escVars, infoVars, waitVars,
                    adVars, usVars, opsVars, jsonVars, readVars, finVars, urVars, rfVars>>

\* A header with a length that is no number, a header without its
\* separator, plain debug text, and debug text with a '|' in it.
DebugTexts ==
    {MSG \o <<"x", "|">>, MSG \o <<"1">>, <<"h", "i">>, <<"h", "|">>}

NoiseInit0 == debug_sent = <<>>

\* The hub prints text that is no frame; it reaches the web app like any
\* other notification.
HubSendsDebugText ==
    /\ wire = <<>>
    /\ Len(debug_sent) < MaxDebugTexts
    /\ \E text \in DebugTexts :
          /\ wire' = text
          /\ debug_sent' = Append(debug_sent, text)
    /\ delivered_from' = <<>>
    /\ UNCHANGED <<ble_time, frame_state, expected_payload_length, payload_buffer,
                   frame_buffer, last_fragment_time, delivered, frame_raised,
                   sent_payloads, abandoned, fed_since_clear, discarded, resets>>
    /\ UNCHANGED notFramerNoise

FramerNoiseNext == HubSendsDebugText \/ HubSendsFrame \/ BleNotification \/ BleClock

\* A whole header is in _frame_buffer and was not accepted.
UnparsedHeaderKept ==
    /\ frame_state = "waiting_header"
    /\ Contains(frame_buffer, MSG)
    /\ Contains(frame_buffer, <<"|">>)

\* C27: text that cannot be parsed as MSG:<int>| makes on_ble_data raise
\* nothing and is dropped: it does not stay in the buffer in front of the
\* header of the next frame.
C27_UnparseableHeaderDiscarded ==
    /\ frame_raised = "none"
    /\ ~UnparsedHeaderKept

-----------------------------------------------------------------------------
(* The unframed path: the hub prints one JSON document per line and        *)
(* on_data of _start_json_read_loop gets the chunks of the read loop       *)
(* (unnamed/part_001)                                                      *)

\* Bound on the lines the hub prints.
MaxLines == 2

notJson == <<scanVars, framerVars, replVars, serialVars, linkVars, escVars, infoVars,
             waitVars, adVars, usVars, opsVars, noiseVars, readVars, finVars, urVars, rfVars>>

CR == "\r"
LF == "\n"

\* Two JSON documents, and two lines that are none.
JsonDocuments == {<<"{", "a", "}">>, <<"{", "b", "}">>}
HubLines == JsonDocuments \cup {<<"a", "}">>, <<"h", "i">>}

JsonInit0 ==
    /\ jl_wire = <<>>
    /\ jl_sent = <<>>
    /\ jl_delivered = <<>>
    /\ jl_raised = "none"

\* data.split('\n'): the pieces between the line feeds, from position i,
\* with `piece` collected so far.
RECURSIVE Split(_, _, _)
Split(data, i, piece) ==
    IF i > Len(data) THEN <<piece>>
    ELSE IF data[i] = LF THEN <<piece>> \o Split(data, i + 1, <<>>)
    ELSE Split(data, i + 1, Append(piece, data[i]))

IsSpace(c) == c \in {CR, LF, " "}

\* line.strip()
RECURSIVE Strip(_)
Strip(line) ==
    IF line = <<>> THEN line
    ELSE IF IsSpace(line[1]) THEN Strip(SubSeq(line, 2, Len(line)))
    ELSE IF IsSpace(line[Len(line)]) THEN Strip(SubSeq(line, 1, Len(line) - 1))
    ELSE line

\* json.loads(line) raises JSONDecodeError unless the line is a document.
JsonDecodeError(line) == line \notin JsonDocuments

\* on_data: the loop over the lines of one chunk; what it hands to
\* on_data_callback and what it raises.
RECURSIVE OnDataLoop(_, _, _)
OnDataLoop(lines, i, acc) ==
    IF i > Len(lines) THEN acc
    ELSE LET line == Strip(lines[i]) IN
         IF line = <<>> THEN OnDataLoop(lines, i + 1, acc)
         ELSE IF JsonDecodeError(line)
         THEN OnDataLoop(lines, i + 1, acc)    \* except json.JSONDecodeError: pass
         ELSE OnDataLoop(lines, i + 1, [out |-> Append(acc.out, line), raised |-> "none"])

on_data(data) == OnDataLoop(Split(data, 1, <<>>), 1, [out |-> <<>>, raised |-> "none"])

\* The hub prints a line: the text, carriage return, line feed.
HubPrintsLine ==
    /\ Len(jl_sent) < MaxLines
    /\ \E line \in HubLines :
          /\ jl_wire' = jl_wire \o line \o <<CR, LF>>
          /\ jl_sent' = Append(jl_sent, line)
    /\ UNCHANGED <<jl_delivered, jl_raised>>
    /\ UNCHANGED notJson

\* The read loop gets the next chunk, of any length, and calls on_data.
JsonChunkArrives ==
    /\ jl_wire # <<>>
    /\ \E k \in 1..Len(jl_wire) :
       \E r \in {on_data(SubSeq(jl_wire, 1, k))} :
          /\ jl_wire' = SubSeq(jl_wire, k + 1, Len(jl_wire))
          /\ jl_delivered' = jl_delivered \o r.out
          /\ jl_raised' = r.raised
    /\ UNCHANGED jl_sent
    /\ UNCHANGED notJson

JsonNext == HubPrintsLine \/ JsonChunkArrives

IsJsonDocument(line) == line \in JsonDocuments

\* C28: a line that is no JSON makes on_data raise nothing, and once the
\* stream has been read, every line of it that is JSON has been handed to
\* the data callback, in order.
C28_BadLineDroppedOthersDelivered ==
    /\ jl_raised = "none"
    /\ jl_wire = <<>> => jl_delivered = SelectSeq(jl_sent, IsJsonDocument)

\* ---- deviceScan responses outside a scan ---------------------------------

\* What the hub keeps about a scan and about its BLE side.
ScanState == <<scan_in_progress, scan_start_time, scan_rssi_threshold,
               discovered_devices, ble_paused, scan_ping_counter, last_ping_time,
               ble_advertising, ble_sent>>

\* C29: a deviceScan response handled while no scan is in progress (before
\* the first scan, after finish_device_scan or after the watchdog) leaves the
\* list of discovered devices and all scan state as they were.
C29_StrayResponseIgnored ==
    [][(hub_call' = "handle_device_scan" /\ ~scan_in_progress) => UNCHANGED ScanState]_vars

\* A response handled after a scan has finished with devices in its list.
C29_Witness ==
    /\ hub_call = "handle_device_scan"
    /\ ~scan_in_progress
    /\ scan_log # <<>>
    /\ discovered_devices # <<>>

\* C36: a JSON line reaches the data callback once however the port cuts
\* the stream into chunks: when every line the hub printed is a JSON document
\* and all of it has been read, the messages delivered are the lines printed.
C36_SplitLineDeliveredOnce ==
    (/\ jl_wire = <<>>
     /\ \A i \in 1..Len(jl_sent) : IsJsonDocument(jl_sent[i]))
        => jl_delivered = jl_sent

-----------------------------------------------------------------------------
(* SerialAdapter.startReadLoop, one await at a time (unnamed/part_004)     *)

\* Bound on the chunks that arrive.
MaxChunks == 3

notRead == <<scanVars, framerVars, replVars, serialVars, linkVars, escVars, infoVars,
             waitVars, adVars, usVars, opsVars, noiseVars, jsonVars, finVars, urVars, rfVars>>

ReadInit0 ==
    /\ rl_pc = "none"
    /\ rl_running = FALSE
    /\ rl_result = "none"
    /\ rl_stream = "open"
    /\ rl_queue = <<>>
    /\ rl_arrived = 0
    /\ rl_onData = <<>>
    /\ rl_onError = 0
    /\ rl_stopped = FALSE
    /\ rl_late = {}

\* currentReader.read(): settled at once when the stream holds a chunk, is
\* closed, cancelled or errored; pending otherwise.
Read(stream, queue) ==
    IF stream = "errored" THEN [pc |-> "resolved", result |-> "error", queue |-> <<>>]
    ELSE IF queue # <<>> THEN [pc |-> "resolved", result |-> Head(queue), queue |-> Tail(queue)]
    ELSE IF stream \in {"closed", "cancelled"}
    THEN [pc |-> "resolved", result |-> "done", queue |-> <<>>]
    ELSE [pc |-> "pending", result |-> "none", queue |-> <<>>]

\* "while (running)": the loop reads again or leaves for its finally block.
LoopTop(isRunning, stream, queue) ==
    IF isRunning THEN Read(stream, queue)
    ELSE [pc |-> "cleanup", result |-> "none", queue |-> queue]

\* startReadLoop: running = true, a fresh reader, the first read().
RlStartReadLoop ==
    /\ rl_pc = "none"
    /\ rl_running' = TRUE
    /\ \E r \in {Read(rl_stream, rl_queue)} :
          /\ rl_pc' = r.pc
          /\ rl_result' = r.result
          /\ rl_queue' = r.queue
    /\ UNCHANGED <<rl_stream, rl_arrived, rl_onData, rl_onError, rl_stopped, rl_late>>
    /\ UNCHANGED notRead

\* The port receives a chunk: it settles the pending read() or waits in the
\* stream.
RlChunkArrives ==
    /\ rl_stream = "open"
    /\ rl_arrived < MaxChunks
    /\ rl_arrived' = rl_arrived + 1
    /\ IF rl_pc = "pending"
       THEN /\ rl_pc' = "resolved"
            /\ rl_result' = ToString(rl_arrived + 1)
            /\ UNCHANGED rl_queue
       ELSE /\ rl_queue' = Append(rl_queue, ToString(rl_arrived + 1))
            /\ UNCHANGED <<rl_pc, rl_result>>
    /\ UNCHANGED <<rl_running, rl_stream, rl_onData, rl_onError, rl_stopped, rl_late>>
    /\ UNCHANGED notRead

\* The stream ends (closed) or fails (the device is gone).
RlStreamEnds ==
    /\ rl_stream = "open"
    /\ \E how \in {"closed", "errored"} :
          /\ rl_stream' = how
          /\ rl_queue' = IF how = "errored" THEN <<>> ELSE rl_queue
          /\ IF rl_pc = "pending"
             THEN /\ rl_pc' = "resolved"
                  /\ rl_result' = IF how = "errored" THEN "error" ELSE "done"
             ELSE UNCHANGED <<rl_pc, rl_result>>
    /\ UNCHANGED <<rl_running, rl_arrived, rl_onData, rl_onError, rl_stopped, rl_late>>
    /\ UNCHANGED notRead

\* The stop function: running = false and currentReader.cancel(), which
\* settles a pending read() with done and empties the stream. A read() that
\* has settled keeps its result.
RlStopFn ==
    /\ rl_pc # "none"
    /\ rl_running' = FALSE
    /\ rl_stopped' = TRUE
    /\ IF rl_pc \in {"pending", "resolved"} /\ rl_stream = "open"
       THEN /\ rl_stream' = "cancelled"
            /\ rl_queue' = <<>>
       ELSE UNCHANGED <<rl_stream, rl_queue>>
    /\ IF rl_pc = "pending"
       THEN /\ rl_pc' = "resolved"
            /\ rl_result' = "done"
       ELSE UNCHANGED <<rl_pc, rl_result>>
    /\ UNCHANGED <<rl_arrived, rl_onData, rl_onError, rl_late>>
    /\ UNCHANGED notRead

\* The loop goes on after "await currentReader.read()": break on done, the
\* catch block on an error, onData(text) otherwise, then "while (running)".
\* The callback behind onData may invoke the stop function itself.
RlReadSettled ==
    /\ rl_pc = "resolved"
    /\ IF rl_result = "done"
       THEN /\ rl_pc' = "cleanup"
            /\ rl_result' = "none"
            /\ UNCHANGED <<rl_running, rl_stream, rl_queue, rl_onData, rl_onError,
                           rl_stopped, rl_late>>
       ELSE IF rl_result = "error"
       THEN /\ rl_pc' = "cleanup"
            /\ rl_result' = "none"
            /\ rl_onError' = IF rl_running THEN rl_onError + 1 ELSE rl_onError
            /\ UNCHANGED <<rl_running, rl_stream, rl_queue, rl_onData, rl_stopped, rl_late>>
       ELSE \* onData(text), whatever running is by now
            \E stops \in BOOLEAN :
            \E stream \in {IF stops /\ rl_stream = "open" THEN "cancelled" ELSE rl_stream} :
            \E r \in {LoopTop(rl_running /\ ~stops, stream,
                              IF stops THEN <<>> ELSE rl_queue)} :
               /\ rl_onData' = Append(rl_onData, rl_result)
               /\ rl_late' = IF rl_stopped THEN rl_late \cup {rl_result} ELSE rl_late
               /\ rl_running' = (rl_running /\ ~stops)
               /\ rl_stopped' = (rl_stopped \/ stops)
               /\ rl_stream' = stream
               /\ rl_pc' = r.pc
               /\ rl_result' = r.result
               /\ rl_queue' = r.queue
               /\ UNCHANGED rl_onError
    /\ UNCHANGED rl_arrived
    /\ UNCHANGED notRead

\* The finally block: currentReader.cancel(), releaseLock().
RlCleanup ==
    /\ rl_pc = "cleanup"
    /\ rl_pc' = "ended"
    /\ rl_stream' = IF rl_stream = "open" THEN "cancelled" ELSE rl_stream
    /\ rl_queue' = <<>>
    /\ UNCHANGED <<rl_running, rl_result, rl_arrived, rl_onData, rl_onError, rl_stopped,
                   rl_late>>
    /\ UNCHANGED notRead

ReadNext ==
    \/ RlStartReadLoop
    \/ RlChunkArrives
    \/ RlStreamEnds
    \/ RlStopFn
    \/ RlReadSettled
    \/ RlCleanup

\* C30: onData gets the chunks in the order they arrived, none left out,
\* every chunk that arrived before the stream closed when the stop function
\* was never invoked, and no chunk once the stop function has been invoked.
C30_InOrderUntilStopped ==
    /\ \A i \in 1..Len(rl_onData) : rl_onData[i] = ToString(i)
    /\ (rl_pc = "ended" /\ ~rl_stopped /\ rl_stream = "closed")
          => Len(rl_onData) = rl_arrived
    /\ rl_late = {}

-----------------------------------------------------------------------------
(* Frames sent back to back: the next send_ble_framed starts while bytes   *)
(* of the frame before are still on their way, checked under SpecFramerStream *)

\* send_ble_framed is called again before the web app has been notified of
\* every byte of the frame before.
HubSendsBackToBack ==
    /\ wire # <<>>
    /\ Len(sent_payloads) < MaxFrames
    /\ \E payload \in Payloads(Len(sent_payloads) + 1) :
           /\ wire' = wire \o FrameBytes(payload)
           /\ sent_payloads' = Append(sent_payloads, payload)
    /\ delivered_from' = <<>>
    /\ UNCHANGED <<ble_time, frame_state, expected_payload_length, payload_buffer,
                   frame_buffer, last_fragment_time, delivered, frame_raised,
                   abandoned, fed_since_clear, discarded, resets>>
    /\ UNCHANGED notFramer

FramerStreamNext == HubSendsFrame \/ HubSendsBackToBack \/ BleNotification

IsPrefix(part, text) ==
    /\ Len(part) <= Len(text)
    /\ SubSeq(text, 1, Len(part)) = part

\* C31: of frames sent one after the other, in any chunking, every payload is
\* delivered once and in order: what has been delivered is always the first
\* payloads sent, all of them once every byte has been notified; and right
\* after a delivery the framer waits for a header with empty buffers.
C31_BackToBackFramesAllDelivered ==
    /\ IsPrefix(delivered, sent_payloads)
    /\ wire = <<>> => delivered = sent_payloads
    /\ delivered_from # <<>> =>
           /\ frame_state = "waiting_header"
           /\ frame_buffer = <<>>
           /\ payload_buffer = <<>>

\* ---- every scan ends ----------------------------------------------------

\* Main loop, step 2, with the responses of one module at one rssi: the
\* scans whose end is followed are told apart by their times only.
HubOneModuleResponds ==
    /\ HandleDeviceScan("aa01", -50)
    /\ UNCHANGED notScan

ScanFairNext == HubClock \/ HubPingCommand \/ HubOneModuleResponds \/ HubTick

\* The scan started early enough for the clock of the model to pass its timeout.
TimeoutWithinClock == scan_start_time + device_scan_timeout < MaxHubTime

\* C32: with a main loop that keeps running (time.time() moves on and step 3
\* is reached again and again), every scan that was started leaves
\* scan_in_progress, through finish_device_scan or the watchdog.
C32_EveryScanEnds == (scan_in_progress /\ TimeoutWithinClock) ~> ~scan_in_progress

\* A scan has just been ended by check_scan_progress.
C32_Witness ==
    /\ ~scan_in_progress
    /\ hub_call \in {"check_finish", "check_watchdog", "check_watchdog_finish"}
    /\ hub_time - scan_start_time = device_scan_timeout + 1
    /\ ble_sent # <<>>

-----------------------------------------------------------------------------
(* finish_device_scan, one statement at a time (BLE_PROTOCOL_V1.md)        *)

notFinish == <<scanVars, framerVars, replVars, serialVars, linkVars, escVars, infoVars,
               waitVars, adVars, usVars, opsVars, noiseVars, jsonVars, readVars, urVars, rfVars>>

\* What a scan can leave in discovered_devices: no device, one, or two of
\* different macs.
ScannedDevices ==
    {<<>>}
    \cup {<<DeviceInfo(m, r)>> : m \in Macs, r \in RssiValues}
    \cup {<<DeviceInfo("aa01", r1), DeviceInfo("aa02", r2)>> : r1, r2 \in RssiValues}

\* The threshold is the text of the PING command; "near" is no number.
FinishThresholds == Thresholds \cup {"-70", "near"}

FinishInit0 ==
    /\ fin_pc = 0
    /\ fin_scan_in_progress = FALSE
    /\ fin_ble_paused = FALSE
    /\ fin_advertising = TRUE
    /\ fin_devices = <<>>
    /\ fin_threshold = "all"
    /\ fin_sent = <<>>
    /\ fin_raised = "none"

\* The statements of finish_device_scan in the order of the source.
FinishOrderMutant == <<"scan_in_progress", "filter", "send_ble_framed", "advertise">>
FinishOrder == <<"scan_in_progress", "advertise", "filter", "send_ble_framed">>

AtStatement(name) == fin_pc \in 1..Len(FinishOrder) /\ FinishOrder[fin_pc] = name

NextStatement == IF fin_pc = Len(FinishOrder) THEN 0 ELSE fin_pc + 1

\* check_scan_progress calls finish_device_scan at the end of a scan: the
\* scan is in progress and the radio is paused for ESP-NOW.
FinishBegins ==
    /\ fin_pc = 0
    /\ \E devices \in ScannedDevices, threshold \in FinishThresholds :
          /\ fin_devices' = devices
          /\ fin_threshold' = threshold
    /\ fin_pc' = 1
    /\ fin_scan_in_progress' = TRUE
    /\ fin_ble_paused' = TRUE
    /\ fin_advertising' = FALSE
    /\ fin_sent' = <<>>
    /\ fin_raised' = "none"
    /\ UNCHANGED notFinish

\* self.scan_in_progress = False
FinishClearsFlag ==
    /\ AtStatement("scan_in_progress")
    /\ fin_scan_in_progress' = FALSE
    /\ fin_pc' = NextStatement
    /\ UNCHANGED <<fin_ble_paused, fin_advertising, fin_devices, fin_threshold, fin_sent,
                   fin_raised>>
    /\ UNCHANGED notFinish

\* self.ble_paused = False; self.ble.advertise(); time.sleep_ms(100)
FinishResumesBle ==
    /\ AtStatement("advertise")
    /\ fin_ble_paused' = FALSE
    /\ fin_advertising' = TRUE
    /\ fin_pc' = NextStatement
    /\ UNCHANGED <<fin_scan_in_progress, fin_devices, fin_threshold, fin_sent, fin_raised>>
    /\ UNCHANGED notFinish

\* int(self.scan_rssi_threshold) raises ValueError on text that is no number.
ThresholdRaises(threshold) == threshold \notin {"all", "-50", "-60", "-70"}

\* The RSSI filter; a ValueError ends finish_device_scan there.
FinishFilters ==
    /\ AtStatement("filter")
    /\ IF ThresholdRaises(fin_threshold)
       THEN /\ fin_raised' = "ValueError"
            /\ fin_pc' = 0
            /\ UNCHANGED fin_devices
       ELSE /\ fin_devices' = FilterByRssi(fin_devices, fin_threshold)
            /\ fin_pc' = NextStatement
            /\ UNCHANGED fin_raised
    /\ UNCHANGED <<fin_scan_in_progress, fin_ble_paused, fin_advertising, fin_threshold,
                   fin_sent>>
    /\ UNCHANGED notFinish

\* device_list_response is built and sent with send_ble_framed.
FinishSendsList ==
    /\ AtStatement("send_ble_framed")
    /\ fin_sent' = Append(fin_sent, [type |-> "devices", list |-> fin_devices,
                                     advertising |-> fin_advertising,
                                     ble_paused |-> fin_ble_paused])
    /\ fin_pc' = NextStatement
    /\ UNCHANGED <<fin_scan_in_progress, fin_ble_paused, fin_advertising, fin_devices,
                   fin_threshold, fin_raised>>
    /\ UNCHANGED notFinish

FinishNext ==
    \/ FinishBegins
    \/ FinishClearsFlag
    \/ FinishResumesBle
    \/ FinishFilters
    \/ FinishSendsList

\* C33: whenever finish_device_scan sends the device list, BLE advertising
\* has been resumed before: at the send the radio advertises and ble_paused
\* is off.
C33_ResumedBeforeListIsSent ==
    \A i \in 1..Len(fin_sent) :
        /\ fin_sent[i].advertising
        /\ ~fin_sent[i].ble_paused

\* finish_device_scan has run to its end and sent a list of two devices.
C33_Witness ==
    /\ fin_pc = 0
    /\ Len(fin_sent) = 1
    /\ Len(fin_sent[1].list) = 2
    /\ fin_sent[1].advertising
    /\ fin_raised = "none"

-----------------------------------------------------------------------------
(* SerialUploader.read(timeout), call after call on one reader             *)
(* (webapp/js/utils/serialUploader.js)                                     *)

\* Bounds on the chunks the device sends and on the read() calls.
MaxDeviceChunks == 4
MaxReadCalls == 5

notUploaderRead == <<scanVars, framerVars, replVars, serialVars, linkVars, escVars,
                     infoVars, waitVars, adVars, usVars, opsVars, noiseVars, jsonVars,
                     readVars, finVars, rfVars>>

UploaderReadInit0 ==
    /\ ur_requests = <<>>
    /\ ur_queue = <<>>
    /\ ur_sent = 0
    /\ ur_returned = <<>>
    /\ ur_discarded = {}

ReadWaiting == ur_requests # <<>> /\ ur_requests[Len(ur_requests)] = "awaited"

\* read(timeout): this.reader.read() is raced against the timer. A chunk
\* the stream holds settles it at once.
UrReadCalled ==
    /\ ~ReadWaiting
    /\ Len(ur_returned) + 1 <= MaxReadCalls
    /\ IF ur_requests = <<>> /\ ur_queue # <<>>
       THEN /\ ur_returned' = Append(ur_returned, Head(ur_queue))
            /\ ur_queue' = Tail(ur_queue)
            /\ UNCHANGED ur_requests
       ELSE /\ ur_requests' = Append(ur_requests, "awaited")
            /\ UNCHANGED <<ur_returned, ur_queue>>
    /\ UNCHANGED <<ur_sent, ur_discarded>>
    /\ UNCHANGED notUploaderRead

\* What read() does with its reader.read() when the timer wins the race:
\* nothing; the request stays with the reader.
AfterTimeout(requests) == [requests EXCEPT ![Len(requests)] = "orphan"]

\* The timer wins: 'Read timeout' is caught and read() returns ''.
UrReadTimesOut ==
    /\ ReadWaiting
    /\ ur_returned' = Append(ur_returned, "")
    /\ ur_requests' = AfterTimeout(ur_requests)
    /\ UNCHANGED <<ur_queue, ur_sent, ur_discarded>>
    /\ UNCHANGED notUploaderRead

\* The device sends a chunk: it settles the oldest read request, or waits
\* in the stream.
UrChunkArrives ==
    /\ ur_sent < MaxDeviceChunks
    /\ ur_sent' = ur_sent + 1
    /\ IF ur_requests = <<>>
       THEN /\ ur_queue' = Append(ur_queue, ToString(ur_sent + 1))
            /\ UNCHANGED <<ur_requests, ur_returned, ur_discarded>>
       ELSE /\ ur_requests' = Tail(ur_requests)
            /\ IF Head(ur_requests) = "awaited"
               THEN /\ ur_returned' = Append(ur_returned, ToString(ur_sent + 1))
                    /\ UNCHANGED ur_discarded
               ELSE /\ ur_discarded' = ur_discarded \cup {ToString(ur_sent + 1)}
                    /\ UNCHANGED ur_returned
            /\ UNCHANGED ur_queue
    /\ UNCHANGED notUploaderRead

UploaderReadNext == UrReadCalled \/ UrReadTimesOut \/ UrChunkArrives

IsChunk(text) == text # ""

\* C34: no chunk is lost between reads: the chunks the read() calls have
\* returned, followed by those the stream still holds, are the chunks the
\* device sent, in order; no chunk settles a request left behind by a read()
\* that timed out.
C34_NoChunkLostBetweenReads ==
    /\ ur_discarded = {}
    /\ ~ReadWaiting =>
           SelectSeq(ur_returned, IsChunk) \o ur_queue = [i \in 1..ur_sent |-> ToString(i)]

-----------------------------------------------------------------------------
(* _start_json_read_loop called while a loop runs, checked under SpecRestart *)

\* _start_json_read_loop, called on a connected port: the old stop function
\* and startReadLoop run in one go, nothing is awaited in between.
RestartJsonReadLoop ==
    /\ connected
    /\ \A o \in Ops : ~InProgress(o)
    /\ disconnected_events < MaxDisconnectEvents
    /\ SetLoopState(StartJsonReadLoop(LoopState))
    /\ UNCHANGED <<portVars, messages, opVars>>
    /\ UNCHANGED notSerial

RestartNext ==
    Connect \/ RestartJsonReadLoop \/ LoopReadsData \/ LoopReadFails
        \/ LoopCleanupDone \/ DeviceVanishes \/ Disconnect

\* A loop is running: it holds the reader and waits in read().
LoopIsRunning ==
    /\ read_loop_stop = "live"
    /\ running
    /\ loopPc = "reading"
    /\ readerLock = "loop"
    /\ ~device_gone

\* C35: _start_json_read_loop called while a loop is running ends with one
\* running loop that holds the reader lock, and calls neither on_error nor
\* on_connection_lost_callback.
C35_RestartLeavesOneLoop ==
    [][(LoopIsRunning /\ RestartJsonReadLoop) =>
           /\ readerLock' = "loop"
           /\ running'
           /\ loopPc' = "reading"
           /\ read_loop_stop' = "live"
           /\ disconnected_events' = disconnected_events
           /\ connection_lost' = connection_lost]_vars

-----------------------------------------------------------------------------
(* The web app's scan handling: handleRefreshDevices, the refresh timeout  *)
(* and onDevicesUpdated (BLE_PROTOCOL_V1.md)                               *)

\* "this.MAX_GATT_RETRIES = 2"
MAX_GATT_RETRIES == 2

\* Bound on the timers left pending by earlier attempts.
MaxStaleTimers == 2

notRefresh == <<scanVars, framerVars, replVars, serialVars, linkVars, escVars, infoVars,
                waitVars, adVars, usVars, opsVars, noiseVars, jsonVars, readVars,
                finVars, urVars>>

RefreshInit0 ==
    /\ rf_isRefreshing = FALSE
    /\ rf_pc = "idle"
    /\ rf_retryCount = 0
    /\ rf_current = FALSE
    /\ rf_stale = 0
    /\ rf_list_pending = FALSE
    /\ rf_outcome = "none"

\* Step 1: "if (state.isRefreshing && retryCount === 0) return".
RefreshInProgress(isRefreshing, retryCount) == isRefreshing /\ retryCount = 0

\* Steps 3 and 4: isRefreshing = true and a new timer in this.refreshTimeout;
\* the timer it named before stays pending.
SetLoadingState ==
    /\ rf_isRefreshing' = TRUE
    /\ rf_current' = TRUE
    /\ rf_stale' = IF rf_current THEN rf_stale + 1 ELSE rf_stale

TimerFits == ~rf_current \/ rf_stale < MaxStaleTimers

\* The user asks for a refresh: handleRefreshDevices(null, 0) up to its await.
RfInvoke ==
    /\ rf_pc = "idle"
    /\ IF RefreshInProgress(rf_isRefreshing, 0)
       THEN /\ rf_outcome' = "already in progress"
            /\ UNCHANGED <<rf_isRefreshing, rf_pc, rf_retryCount, rf_current, rf_stale>>
       ELSE /\ TimerFits
            /\ SetLoadingState
            /\ rf_pc' = "sending"
            /\ rf_retryCount' = 0
            /\ rf_outcome' = "sending"
    /\ UNCHANGED rf_list_pending
    /\ UNCHANGED notRefresh

\* The catch block's condition for another attempt.
Retries(isGattError, retryCount) == isGattError /\ retryCount < MAX_GATT_RETRIES

\* PyBridge.refreshDevices settles: the PING was sent (the hub's list may
\* get lost on the way), or it threw, with a GATT error or another one.
RfSendSettles ==
    /\ rf_pc = "sending"
    /\ \E result \in {"sent", "sent, list lost", "gatt error", "error"} :
          IF result \in {"sent", "sent, list lost"}
          THEN /\ rf_pc' = "idle"
               /\ rf_list_pending' = (rf_list_pending \/ result = "sent")
               /\ rf_outcome' = "sent"
               /\ UNCHANGED rf_isRefreshing
          ELSE IF Retries(result = "gatt error", rf_retryCount)
          THEN /\ rf_pc' = "retry_wait"
               /\ rf_outcome' = "retrying"
               /\ UNCHANGED <<rf_isRefreshing, rf_list_pending>>
          ELSE /\ rf_pc' = "idle"
               /\ rf_isRefreshing' = FALSE
               /\ rf_outcome' = "failed"
               /\ UNCHANGED rf_list_pending
    /\ UNCHANGED <<rf_retryCount, rf_current, rf_stale>>
    /\ UNCHANGED notRefresh

\* After the second of waiting: handleRefreshDevices(rssiThreshold, retryCount + 1).
RfRetry ==
    /\ rf_pc = "retry_wait"
    /\ IF RefreshInProgress(rf_isRefreshing, rf_retryCount + 1)
       THEN /\ rf_pc' = "idle"
            /\ rf_outcome' = "already in progress"
            /\ UNCHANGED <<rf_isRefreshing, rf_retryCount, rf_current, rf_stale>>
       ELSE /\ TimerFits
            /\ SetLoadingState
            /\ rf_pc' = "sending"
            /\ rf_retryCount' = rf_retryCount + 1
            /\ rf_outcome' = "sending"
    /\ UNCHANGED rf_list_pending
    /\ UNCHANGED notRefresh

\* What the timeout's callback leaves in isRefreshing.
RefreshTimeoutCallbackMutant(isRefreshing) == isRefreshing
RefreshTimeoutCallback(isRefreshing) == FALSE

\* A timer fires after its 7 s: the one this.refreshTimeout names or an
\* older one.
RfTimerFires ==
    /\ \E which \in {"current", "stale"} :
          IF which = "current"
          THEN rf_current /\ rf_current' = FALSE /\ UNCHANGED rf_stale
          ELSE rf_stale > 0 /\ rf_stale' = rf_stale - 1 /\ UNCHANGED rf_current
    /\ rf_isRefreshing' = RefreshTimeoutCallback(rf_isRefreshing)
    /\ rf_outcome' = "timeout"
    /\ UNCHANGED <<rf_pc, rf_retryCount, rf_list_pending>>
    /\ UNCHANGED notRefresh

\* window.onDevicesUpdated(devices): the hub's list has arrived.
RfDevicesUpdated ==
    /\ rf_list_pending
    /\ rf_list_pending' = FALSE
    /\ rf_current' = FALSE                    \* clearTimeout(this.refreshTimeout)
    /\ rf_isRefreshing' = FALSE
    /\ rf_outcome' = "devices"
    /\ UNCHANGED <<rf_pc, rf_retryCount, rf_stale>>
    /\ UNCHANGED notRefresh

RefreshNext == RfInvoke \/ RfSendSettles \/ RfRetry \/ RfTimerFires \/ RfDevicesUpdated

\* C39: isRefreshing never stays true: whenever it is true it becomes false
\* later, by the device list, by a timeout or by giving up; and a GATT error
\* is retried at most MAX_GATT_RETRIES times.
C39_RefreshingEnds ==
    /\ [](rf_retryCount <= MAX_GATT_RETRIES)
    /\ rf_isRefreshing ~> ~rf_isRefreshing

\* The second retry failed too and handleRefreshDevices gave up.
C39_Witness ==
    /\ rf_outcome = "failed"
    /\ rf_retryCount = MAX_GATT_RETRIES
    /\ ~rf_isRefreshing
    /\ rf_pc = "idle"

-----------------------------------------------------------------------------
(* Specifications                                                          *)

Init ==
    ScanInit0 /\ FramerInit0 /\ ReplInit0 /\ SerialInit0 /\ LinkInit0 /\ EscInit0 /\ InfoInit0
    /\ WaitInit0 /\ AdapterInit0 /\ OpsInit0 /\ NoiseInit0
    /\ JsonInit0 /\ ReadInit0 /\ FinishInit0
    /\ UploaderReadInit0 /\ RefreshInit0

FramerNext == HubSendsFrame \/ BleNotification \/ HubStalls \/ BleClock

SpecScan == Init /\ [][ScanNext]_vars

SpecHubLoop == Init /\ [][HubLoopNext]_vars

SpecFramer == Init /\ [][FramerNext]_vars

SpecFramerNoise == Init /\ [][FramerNoiseNext]_vars

SpecRepl == Init /\ [][ReplNext]_vars

SpecSerial == Init /\ [][SerialNext]_vars

SpecEscape == Init /\ [][EscNext]_vars

SpecInfo == Init /\ [][InfoNext]_vars

SpecAdapter == Init /\ [][AdapterNext]_vars

SpecJsonLines == Init /\ [][JsonNext]_vars

\* The main loop never stops: its clock moves on and step 3 is reached.
SpecScanFair == Init /\ [][ScanFairNext]_vars /\ WF_vars(HubClock) /\ WF_vars(HubTick)

SpecReadLoop == Init /\ [][ReadNext]_vars

\* The browser runs the timers that are due.
SpecRefresh == Init /\ [][RefreshNext]_vars /\ WF_vars(RfTimerFires)

SpecRestart == Init /\ [][RestartNext]_vars

SpecUploaderRead == Init /\ [][UploaderReadNext]_vars

SpecFinish == Init /\ [][FinishNext]_vars

SpecFramerStream == Init /\ [][FramerStreamNext]_vars

SpecReplOps == Init /\ [][OpsNext]_vars

\* The event loop runs every continuation and every timer fires.
SpecWait == Init /\ [][WaitNext]_vars /\ WF_vars(WaitReads \/ WaitLoopOver)

=============================================================================
